---- MODULE Spec2Model ----
(***************************************************************************)
(* Model of the file-backed certificate store of certd (package fsstore).  *)
(*                                                                         *)
(* Go strings are modelled as sequences of byte values, so that the        *)
(* lexical order of fs.WalkDir and of sort.Strings is the order the        *)
(* program really uses.  The byte values used below are                    *)
(*   '-' 45   '.' 46   '/' 47   'a' 97   'b' 98   'c' 99   'd' 100         *)
(*   'e' 101  'j' 106  'k' 107  'l' 108  'n' 110  'o' 111  'r' 114         *)
(*   'h' 104  's' 115  't' 116  'x' 120  'y' 121                          *)
(***************************************************************************)
EXTENDS Integers, Sequences, FiniteSets, TLC

VARIABLES disk, secret, opened, entries, entriesCap, cache, lock, op, cursor, handle, observed,
          request, state, regMutex, acme, call,
          stateHandler, stateMutex, stateOp, store, files, storeDir,
          wrapper, unwrapped, heap, mutexes, goroutine

vars == <<disk, secret, opened, entries, entriesCap, cache, lock, op, cursor, handle, observed,
         request, state, regMutex, acme, call,
         stateHandler, stateMutex, stateOp, store, files, storeDir,
         wrapper, unwrapped, heap, mutexes, goroutine>>

\* the variables of the file store, of the server's request handlers and of
\* the ACME account registry
storeVars ==
  <<disk, storeDir, secret, opened, entries, entriesCap, cache, lock, op, cursor, handle, observed>>
registryVars == <<state, regMutex, acme>>
handlerVars == <<stateHandler, stateMutex, stateOp, store, files>>
secretVars == <<wrapper, unwrapped, heap>>
lockVars == <<mutexes, goroutine>>
callVars == <<call, secretVars, lockVars>>

(***************************************************************************)
(* Bounds of the model.                                                    *)
(***************************************************************************)
\* number of goroutines calling into the store
MaxThreads == 2
\* number of distinct certificates a certificate factory can produce
MaxCerts == 2

Threads == 1..MaxThreads
Certs == 1..MaxCerts

(***************************************************************************)
(* Strings.                                                                *)
(***************************************************************************)
settingsFile == <<46, 115, 116, 111, 114, 101>>
keyExtension == <<46, 107, 101, 121>>
crtExtension == <<46, 99, 114, 116>>
csrExtension == <<46, 99, 115, 114>>
crlExtension == <<46, 99, 114, 108>>
attributesExtension == <<46, 106, 115, 111, 110>>

\* the "." fs.WalkDir starts at
WalkRoot == <<46>>

\* s < t in Go's string order (bytewise lexical, a proper prefix first)
RECURSIVE StrLess(_, _)
StrLess(s, t) ==
  IF t = <<>> THEN FALSE
  ELSE IF s = <<>> THEN TRUE
  ELSE IF Head(s) # Head(t) THEN Head(s) < Head(t)
  ELSE StrLess(Tail(s), Tail(t))

Dot == <<46>>

\* strings.HasPrefix
HasPrefix(s, prefix) ==
  /\ Len(prefix) <= Len(s)
  /\ SubSeq(s, 1, Len(prefix)) = prefix

\* strings.HasSuffix
HasSuffix(s, suffix) ==
  /\ Len(suffix) <= Len(s)
  /\ SubSeq(s, Len(s) - Len(suffix) + 1, Len(s)) = suffix

\* strings.TrimSuffix
TrimSuffix(s, suffix) ==
  IF HasSuffix(s, suffix) THEN SubSeq(s, 1, Len(s) - Len(suffix)) ELSE s

\* filepath.Ext: the suffix beginning at the final dot of the final path element
RECURSIVE ExtFrom(_, _)
ExtFrom(path, i) ==
  IF i < 1 \/ path[i] = 47 THEN <<>>
  ELSE IF path[i] = 46 THEN SubSeq(path, i, Len(path))
  ELSE ExtFrom(path, i - 1)

Ext(path) == ExtFrom(path, Len(path))

\* the directory part of a path relative to the store root (<<>> is the root)
RECURSIVE DirFrom(_, _)
DirFrom(path, i) ==
  IF i < 1 THEN <<>>
  ELSE IF path[i] = 47 THEN SubSeq(path, 1, i - 1)
  ELSE DirFrom(path, i - 1)

DirOf(path) == DirFrom(path, Len(path))

\* sort.Strings: insertion of one string into a sorted sequence, and the sort
RECURSIVE InsertSorted(_, _)
InsertSorted(x, s) ==
  IF s = <<>> THEN <<x>>
  ELSE IF StrLess(x, Head(s)) THEN <<x>> \o s
  ELSE <<Head(s)>> \o InsertSorted(x, Tail(s))

RECURSIVE SortStrings(_)
SortStrings(s) ==
  IF s = <<>> THEN <<>> ELSE InsertSorted(Head(s), SortStrings(Tail(s)))

\* the elements of a set of strings in ascending order (fs.ReadDir order)
RECURSIVE SortedSeqOf(_)
SortedSeqOf(S) ==
  IF S = {} THEN <<>>
  ELSE LET m == CHOOSE x \in S : \A y \in S \ {x} : StrLess(x, y)
       IN <<m>> \o SortedSeqOf(S \ {m})

(***************************************************************************)
(* File system.  A path is relative to the store directory.                *)
(***************************************************************************)
Absent == [kind |-> "absent", data |-> <<>>]
DirNode == [kind |-> "dir", data |-> <<>>]
File(data) == [kind |-> "file", data |-> data]

\* what a file holds: a sequence of chunks
NoBody == [asn1 |-> "", v |-> 0]
PemBlock(type, bytes) == [form |-> "pem", type |-> type, body |-> bytes]
JsonDoc(obj) == [form |-> "json", type |-> "", body |-> obj]
Garbage == [form |-> "raw", type |-> "", body |-> NoBody]

\* os.Stat(path) succeeds
Exists(d, path) == path \in DOMAIN d /\ d[path].kind # "absent"

IsDir(d, path) == path \in DOMAIN d /\ d[path].kind = "dir"

\* the directory holding path exists
ParentExists(d, path) == DirOf(path) = <<>> \/ IsDir(d, DirOf(path))

\* fs.ReadDir: the names directly inside dir, sorted by file name
ReadDir(d, dir) ==
  SortedSeqOf({p \in DOMAIN d : Exists(d, p) /\ DirOf(p) = dir})

(***************************************************************************)
(* Names and files of the model.                                           *)
(***************************************************************************)
\* "a", "a.d", "a-b", "b", "c"
NameA == <<97>>
NameAD == <<97, 46, 100>>
NameAB == <<97, 45, 98>>
NameB == <<98>>
NameC == <<99>>
Names == {NameA, NameAD, NameAB, NameB, NameC}

Extensions == {keyExtension, crtExtension, csrExtension, crlExtension, attributesExtension}

\* "a.txt", the directory "s" and the files "s/x.crt", "s/x.json" inside it
OtherFile == <<97, 46, 116, 120, 116>>
SubDir == <<115>>
SubCrt == <<115, 47, 120>> \o crtExtension
SubJson == <<115, 47, 120>> \o attributesExtension

\* names a caller can pass which are no entry names: "", ".h", "s/x", "a.key"
NameEmpty == <<>>
NameDotH == <<46, 104>>
NameSubX == <<115, 47, 120>>
NameAKey == <<97>> \o keyExtension
InvalidNames == {NameEmpty, NameDotH, NameSubX, NameAKey}

Paths ==
  {n \o e : n \in Names \cup InvalidNames, e \in Extensions}
    \cup {settingsFile, OtherFile, SubDir, SubCrt, SubJson}

(***************************************************************************)
(* Encodings.                                                              *)
(***************************************************************************)
Nil == [type |-> "nil", id |-> 0]
Certificate(id) == [type |-> "Certificate", id |-> id]
CertificateRequest(id) == [type |-> "CertificateRequest", id |-> id]
Attributes(id) == [type |-> "Attributes", id |-> id]
PrivateKey(id) == [type |-> "PrivateKey", id |-> id]

\* certificate.Raw, certificateRequest.Raw, x509.MarshalPKCS8PrivateKey
Raw(obj) == [asn1 |-> obj.type, v |-> obj.id]

\* x509.ParseCertificate, x509.ParseCertificateRequest, x509.ParsePKCS8PrivateKey
ParseAs(type, bytes) ==
  IF bytes.asn1 = type
    THEN [err |-> FALSE, val |-> [type |-> type, id |-> bytes.v]]
    ELSE [err |-> TRUE, val |-> Nil]

\* json.MarshalIndent of the attributes
MarshalAttributes(obj) == [asn1 |-> "json:provider", v |-> obj.id]

\* json.Unmarshal into StoreEntryAttributes: the file is one JSON document
UnmarshalAttributes(data) ==
  IF Len(data) = 1 /\ data[1].form = "json" /\ data[1].body.asn1 = "json:provider"
    THEN [err |-> FALSE, val |-> Attributes(data[1].body.v)]
    ELSE [err |-> TRUE, val |-> Nil]

\* x509.EncryptPEMBlock / x509.DecryptPEMBlock with the store secret
EncryptPEMBlock(type, bytes, password) ==
  PemBlock(type, [asn1 |-> "aes256", v |-> bytes.v + password])

DecryptPEMBlock(block, password) ==
  IF block.body.asn1 = "aes256" /\ block.body.v >= password
    THEN [err |-> FALSE, val |-> [asn1 |-> "PrivateKey", v |-> block.body.v - password]]
    ELSE [err |-> TRUE, val |-> NoBody]

\* pem.Decode: the first PEM block of the data and what follows it
RECURSIVE PemDecode(_)
PemDecode(data) ==
  IF data = <<>> THEN [found |-> FALSE, block |-> Garbage, rest |-> <<>>]
  ELSE IF Head(data).form = "pem"
    THEN [found |-> TRUE, block |-> Head(data), rest |-> Tail(data)]
    ELSE PemDecode(Tail(data))

(***************************************************************************)
(* The entry list: a Go slice.  entries holds the len elements, entriesCap *)
(* is the capacity of the backing array.                                   *)
(***************************************************************************)
\* runtime growslice for a slice that is appended to one element at a time
GrowCap(cap) == IF cap = 0 THEN 1 ELSE 2 * cap

\* append(slice, x)
AppendSlice(s, cap, x) ==
  [entries |-> Append(s, x),
   cap |-> IF Len(s) < cap THEN cap ELSE GrowCap(cap),
   realloc |-> ~(Len(s) < cap)]

(***************************************************************************)
(* has* predicates.                                                        *)
(***************************************************************************)
FilePath(name, ext) == name \o ext

hasKey(d, name) == Exists(d, FilePath(name, keyExtension))
hasCertificate(d, name) == Exists(d, FilePath(name, crtExtension))
hasCertificateRequest(d, name) == Exists(d, FilePath(name, csrExtension))
hasRevocationList(d, name) == Exists(d, FilePath(name, crlExtension))
hasAttributes(d, name) == Exists(d, FilePath(name, attributesExtension))

\* mutant: any artifact next to the attributes makes an entry
validateStoreEntry_anyArtifact(d, name) ==
  /\ hasAttributes(d, name)
  /\ (hasCertificate(d, name) \/ hasKey(d, name) \/ hasCertificateRequest(d, name))

validateStoreEntry(d, name) ==
  /\ hasAttributes(d, name)
  /\ (hasCertificate(d, name) \/ (hasKey(d, name) /\ hasCertificateRequest(d, name)))

(***************************************************************************)
(* Scan.                                                                   *)
(***************************************************************************)
\* the callback of fs.WalkDir; st is the entry list built so far
scanPath(d, st, current, isDir) ==
  IF current = WalkRoot \/ current = settingsFile
    THEN [entries |-> st.entries, cap |-> st.cap, ctl |-> "nil"]
  ELSE IF isDir
    THEN [entries |-> st.entries, cap |-> st.cap, ctl |-> "SkipDir"]
  ELSE IF Ext(current) \notin Extensions
    THEN [entries |-> st.entries, cap |-> st.cap, ctl |-> "nil"]
  ELSE
    LET storeEntryName == TrimSuffix(current, Ext(current))
        last == Len(st.entries)
    IN IF (last < 1 \/ st.entries[last] # storeEntryName)
            /\ validateStoreEntry(d, storeEntryName)
         THEN LET a == AppendSlice(st.entries, st.cap, storeEntryName)
              IN [entries |-> a.entries, cap |-> a.cap, ctl |-> "nil"]
         ELSE [entries |-> st.entries, cap |-> st.cap, ctl |-> "nil"]

\* fs.WalkDir: lexical order inside each directory, a directory's content
\* directly after the directory unless the callback answered SkipDir
RECURSIVE walkDir(_, _, _), walkList(_, _, _)
walkDir(d, st, path) ==
  LET r == scanPath(d, st, path, path = WalkRoot \/ IsDir(d, path))
  IN IF r.ctl = "SkipDir" \/ ~(path = WalkRoot \/ IsDir(d, path))
       THEN r
       ELSE LET l == walkList(d, r, ReadDir(d, IF path = WalkRoot THEN <<>> ELSE path))
            IN [entries |-> l.entries, cap |-> l.cap, ctl |-> "nil"]

walkList(d, st, list) ==
  IF list = <<>> THEN st
  ELSE LET r == walkDir(d, st, Head(list))
       IN IF r.ctl = "SkipDir" /\ ~IsDir(d, Head(list))
            THEN r
            ELSE walkList(d, [entries |-> r.entries, cap |-> r.cap, ctl |-> "nil"], Tail(list))

\* FSStore.scan on the freshly constructed store (entries = make([]string, 0))
scanDisk(d) == walkDir(d, [entries |-> <<>>, cap |-> 0, ctl |-> "nil"], WalkRoot)

(***************************************************************************)
(* The per-kind caches (ttlcache with a capacity and no TTL): a list of    *)
(* items, most recently used first.                                        *)
(***************************************************************************)
\* ttlcache.WithCapacity(100), scaled down so that eviction happens
CacheCapacity == 2

Kinds == {crtExtension, csrExtension, attributesExtension}

CacheHas(c, key) == \E i \in 1..Len(c) : c[i].key = key

CacheIndex(c, key) == CHOOSE i \in 1..Len(c) : c[i].key = key

CacheWithout(c, key) == SelectSeq(c, LAMBDA item : item.key # key)

\* Cache.Get: a hit moves the item to the front
CacheGet(c, key) ==
  IF CacheHas(c, key)
    THEN [hit |-> TRUE, val |-> c[CacheIndex(c, key)].val,
          cache |-> <<c[CacheIndex(c, key)]>> \o CacheWithout(c, key)]
    ELSE [hit |-> FALSE, val |-> Nil, cache |-> c]

\* mutant: Set keeps the value of a key that is already cached
CacheSet_keepExisting(c, key, val) ==
  IF CacheHas(c, key)
    THEN <<c[CacheIndex(c, key)]>> \o CacheWithout(c, key)
  ELSE IF Len(c) >= CacheCapacity
    THEN <<[key |-> key, val |-> val]>> \o SubSeq(c, 1, Len(c) - 1)
    ELSE <<[key |-> key, val |-> val]>> \o c

\* Cache.Set: replaces the item of the key, or evicts the least recently
\* used item of a full cache and inserts the new one
CacheSet(c, key, val) ==
  IF CacheHas(c, key)
    THEN <<[key |-> key, val |-> val]>> \o CacheWithout(c, key)
  ELSE IF Len(c) >= CacheCapacity
    THEN <<[key |-> key, val |-> val]>> \o SubSeq(c, 1, Len(c) - 1)
    ELSE <<[key |-> key, val |-> val]>> \o c

(***************************************************************************)
(* Artifact reads.  Each answers [err, val, cache]: the error flag, the    *)
(* value (Nil for a missing file) and the cache after the call.            *)
(***************************************************************************)
PemType(ext) ==
  IF ext = crtExtension THEN "CERTIFICATE"
  ELSE IF ext = csrExtension THEN "CERTIFICATE REQUEST"
  ELSE IF ext = crlExtension THEN "X509 CRL"
  ELSE "PRIVATE KEY"

ObjectType(ext) ==
  IF ext = crtExtension THEN "Certificate"
  ELSE IF ext = csrExtension THEN "CertificateRequest"
  ELSE IF ext = crlExtension THEN "RevocationList"
  ELSE "PrivateKey"

\* readCertificate / readCertificateRequest (ext selects the kind)
readPem(d, c, name, ext) ==
  LET cached == CacheGet(c, name)
      path == FilePath(name, ext)
  IN IF cached.hit THEN [err |-> FALSE, val |-> cached.val, cache |-> cached.cache]
     ELSE IF ~Exists(d, path) THEN [err |-> FALSE, val |-> Nil, cache |-> c]
     ELSE IF IsDir(d, path) THEN [err |-> TRUE, val |-> Nil, cache |-> c]
     ELSE LET dec == PemDecode(d[path].data)
          IN IF ~dec.found \/ dec.rest # <<>> THEN [err |-> TRUE, val |-> Nil, cache |-> c]
             ELSE LET parsed == ParseAs(ObjectType(ext), dec.block.body)
                  IN IF parsed.err THEN [err |-> TRUE, val |-> Nil, cache |-> c]
                     ELSE [err |-> FALSE, val |-> parsed.val,
                           cache |-> CacheSet(c, name, parsed.val)]

readCertificate(d, c, name) == readPem(d, c, name, crtExtension)

readCertificateRequest(d, c, name) == readPem(d, c, name, csrExtension)

readAttributes(d, c, name) ==
  LET cached == CacheGet(c, name)
      path == FilePath(name, attributesExtension)
  IN IF cached.hit THEN [err |-> FALSE, val |-> cached.val, cache |-> cached.cache]
     ELSE IF ~Exists(d, path) \/ IsDir(d, path) THEN [err |-> TRUE, val |-> Nil, cache |-> c]
     ELSE LET parsed == UnmarshalAttributes(d[path].data)
          IN IF parsed.err THEN [err |-> TRUE, val |-> Nil, cache |-> c]
             ELSE [err |-> FALSE, val |-> parsed.val,
                   cache |-> CacheSet(c, name, parsed.val)]

\* readKey: never cached
readKey(d, password, name) ==
  LET path == FilePath(name, keyExtension)
  IN IF ~Exists(d, path) THEN [err |-> FALSE, val |-> Nil]
     ELSE IF IsDir(d, path) THEN [err |-> TRUE, val |-> Nil]
     ELSE LET dec == PemDecode(d[path].data)
          IN IF ~dec.found \/ dec.rest # <<>> THEN [err |-> TRUE, val |-> Nil]
             ELSE LET plain == DecryptPEMBlock(dec.block, password)
                  IN IF plain.err THEN [err |-> TRUE, val |-> Nil]
                     ELSE ParseAs("PrivateKey", plain.val)

(***************************************************************************)
(* Initial directories: a store directory as a previous run, or the        *)
(* operator, may have left it.                                             *)
(***************************************************************************)
Settings(s) == File(<<JsonDoc([asn1 |-> "json:secret", v |-> s])>>)

\* loadFSStoreSettings in a store directory of kind dir ("absent" or "dir"):
\* os.ReadFile fails, json.Unmarshal fails, or the secret of the settings
loadFSStoreSettings(d, dir) ==
  IF dir # "dir" \/ d[settingsFile].kind # "file" THEN [err |-> "read", Secret |-> 0]
  ELSE IF d[settingsFile].data = <<>> \/ d[settingsFile].data[1].form # "json"
    THEN [err |-> "unmarshal", Secret |-> 0]
  ELSE [err |-> "", Secret |-> d[settingsFile].data[1].body.v]

\* mutant: the settings are written into a directory that exists
writeFSStoreSettings_intoExisting(d, dir, s) ==
  [err |-> "", dir |-> "dir", disk |-> [d EXCEPT ![settingsFile] = Settings(s)]]

\* writeFSStoreSettings: os.Mkdir of the store directory, which fails if the
\* path exists, and os.WriteFile of the settings
writeFSStoreSettings(d, dir, s) ==
  IF dir # "absent" THEN [err |-> "mkdir", dir |-> dir, disk |-> d]
  ELSE [err |-> "", dir |-> "dir", disk |-> [d EXCEPT ![settingsFile] = Settings(s)]]

InitContent(path, password) ==
  IF path = SubDir THEN DirNode
  ELSE IF path = OtherFile THEN File(<<Garbage>>)
  ELSE IF path = FilePath(NameB, crtExtension)
    THEN File(<<PemBlock("CERTIFICATE", Raw(Certificate(1))), Garbage>>)
  ELSE IF Ext(path) = crtExtension
    THEN File(<<PemBlock("CERTIFICATE", Raw(Certificate(1)))>>)
  ELSE IF Ext(path) = csrExtension
    THEN File(<<PemBlock("CERTIFICATE REQUEST", Raw(CertificateRequest(1)))>>)
  ELSE IF Ext(path) = crlExtension
    THEN File(<<PemBlock("X509 CRL", [asn1 |-> "RevocationList", v |-> 1])>>)
  ELSE IF Ext(path) = keyExtension
    THEN File(<<EncryptPEMBlock("PRIVATE KEY", Raw(PrivateKey(1)), password)>>)
  ELSE File(<<JsonDoc(MarshalAttributes(Attributes(1)))>>)

\* groups of files that are present or missing together
InitUnits ==
  { {FilePath(NameA, crtExtension)},
    {FilePath(NameA, attributesExtension)},
    {FilePath(NameA, keyExtension)},
    {FilePath(NameA, csrExtension)},
    {FilePath(NameAD, crtExtension), FilePath(NameAD, attributesExtension)},
    {FilePath(NameB, crtExtension), FilePath(NameB, keyExtension),
     FilePath(NameB, attributesExtension)},
    {FilePath(NameC, csrExtension), FilePath(NameC, keyExtension),
     FilePath(NameC, attributesExtension)},
    {FilePath(NameAB, crtExtension), FilePath(NameAB, attributesExtension)},
    {SubDir, SubCrt, SubJson, OtherFile, FilePath(NameA, crlExtension)} }

InitDisk(units) ==
  [p \in Paths |->
     IF p = settingsFile THEN Settings(1)
     ELSE IF \E u \in units : p \in u THEN InitContent(p, 1)
     ELSE Absent]

(***************************************************************************)
(* The ACME account registry (package acme, registrations.go) and the      *)
(* state handler it persists through (package state).                      *)
(***************************************************************************)
providerRegistrationsFile == "acme-registrations.json"

\* a ProviderRegistration; Key is the account key (0: none), Registration
\* the account resource of the directory (0: the nil pointer)
ProviderRegistration(provider, email, key, registration) ==
  [Provider |-> provider, Email |-> email, Key |-> key, Registration |-> registration]

NoRegistration == ProviderRegistration("", "", 0, 0)

\* the providers of the ACME configuration: provider name and registration
\* email
Providers ==
  { [Name |-> "p", RegistrationEmail |-> "e1"],
    [Name |-> "p", RegistrationEmail |-> "e2"] }

\* what the state handler holds for a path: nothing, or the data written;
\* the data of a JSON array is its items and whether the array is closed
NoData == [written |-> FALSE, items |-> <<>>, complete |-> FALSE]

\* the JSON object of one record (the struct's field tags; a nil
\* Registration is encoded as null)
MarshalRegistration(r) ==
  [provider |-> r.Provider, email |-> r.Email, key |-> r.Key,
   Registration |-> IF r.Registration = 0
                      THEN [null |-> TRUE, uri |-> 0]
                      ELSE [null |-> FALSE, uri |-> r.Registration]]

UnmarshalRegistration(j) ==
  ProviderRegistration(j.provider, j.email, j.key,
                       IF j.Registration.null THEN 0 ELSE j.Registration.uri)

\* json.MarshalIndent(providerRegistrations, "", "  ")
MarshalIndent(list) ==
  [written |-> TRUE,
   items |-> [i \in 1..Len(list) |-> MarshalRegistration(list[i])],
   complete |-> TRUE]

\* json.Unmarshal(providerRegistrationsBytes, &providerRegistrations)
Unmarshal(data) ==
  IF data.complete
    THEN [err |-> FALSE,
          val |-> [i \in 1..Len(data.items) |-> UnmarshalRegistration(data.items[i])]]
    ELSE [err |-> TRUE, val |-> <<>>]

\* a path os.ReadFile fails on with an error other than ErrNotExist: a
\* directory in the place of the file
Directory == [written |-> TRUE, items |-> <<>>, complete |-> FALSE, dir |-> TRUE]

\* mutant: every read error is taken for a missing file
loadProviderRegistrations_anyError(st) ==
  IF ~st[providerRegistrationsFile].written \/ st[providerRegistrationsFile] = Directory
    THEN [err |-> FALSE, val |-> <<>>]
    ELSE Unmarshal(st[providerRegistrationsFile])

\* state.Read followed by the decoding: a missing file is the empty list,
\* another read error is returned
loadProviderRegistrations(st) ==
  IF ~st[providerRegistrationsFile].written
    THEN [err |-> FALSE, val |-> <<>>]
  ELSE IF st[providerRegistrationsFile] = Directory
    THEN [err |-> TRUE, val |-> <<>>]
    ELSE Unmarshal(st[providerRegistrationsFile])

\* the handlers of the package state: the in-memory handler the package
\* starts with, and the handler of a state directory
defaultHandler == [kind |-> "memory", basePath |-> <<>>]
NewFSHandler(stateDir) == [kind |-> "fs", basePath |-> stateDir]

\* paths are strings of bytes; the state directory "/s"
Separator == <<47>>
RootDir == <<47, 115>>

\* the paths of calls: "f", "../s2/f", "../t", "/s/f"
PathF == <<102>>
PathSibling == <<46, 46, 47, 115, 50, 47, 102>>
PathOut == <<46, 46, 47, 116>>
PathAbs == <<47, 115, 47, 102>>
StatePaths == {PathF, PathSibling, PathOut, PathAbs}

\* filepath.IsAbs
IsAbs(path) == Len(path) > 0 /\ SubSeq(path, 1, 1) = Separator

\* the elements of a path between its separators
RECURSIVE SplitPath(_, _, _)
SplitPath(path, i, element) ==
  IF i > Len(path) THEN <<element>>
  ELSE IF SubSeq(path, i, i) = Separator
    THEN <<element>> \o SplitPath(path, i + 1, <<>>)
    ELSE SplitPath(path, i + 1, element \o SubSeq(path, i, i))

\* filepath.Clean of a rooted path, on its elements: empty elements and "."
\* are dropped, ".." drops the element before it (none at the root)
RECURSIVE CleanElements(_, _, _)
CleanElements(elements, i, done) ==
  IF i > Len(elements) THEN done
  ELSE IF elements[i] = <<>> \/ elements[i] = Dot
    THEN CleanElements(elements, i + 1, done)
  ELSE IF elements[i] = Dot \o Dot
    THEN CleanElements(elements, i + 1, SubSeq(done, 1, Len(done) - 1))
  ELSE CleanElements(elements, i + 1, Append(done, elements[i]))

Elements(path) == CleanElements(SplitPath(path, 1, <<>>), 1, <<>>)

RECURSIVE JoinElements(_)
JoinElements(elements) ==
  IF elements = <<>> THEN <<>>
  ELSE Separator \o Head(elements) \o JoinElements(Tail(elements))

\* filepath.Abs(filepath.Join(basePath, path)) for an absolute basePath
AbsJoin(basePath, path) ==
  LET elements == Elements(basePath \o Separator \o path)
  IN IF elements = <<>> THEN Separator ELSE JoinElements(elements)

\* fsHandler.fullPath for an absolute, clean basePath
fullPath(basePath, path) ==
  IF IsAbs(path) THEN [err |-> TRUE, fullPath |-> <<>>]
  ELSE IF ~HasPrefix(AbsJoin(basePath, path), basePath) THEN [err |-> TRUE, fullPath |-> <<>>]
  ELSE [err |-> FALSE, fullPath |-> AbsJoin(basePath, path)]

\* the files the calls can name
FsFiles == { AbsJoin(RootDir, path) : path \in StatePaths }

\* no call of the package state by a goroutine
NoStateOp ==
  [pc |-> "idle", fn |-> "", path |-> <<>>, data |-> NoData, handler |-> defaultHandler,
   file |-> <<>>, err |-> "", out |-> NoData]

\* the request a handler of the server is serving
NoRequest ==
  [handler |-> "", live |-> FALSE, valid |-> FALSE, pc |-> "", status |-> 0,
   name |-> <<>>, ext |-> <<>>, issuer |-> <<>>, issuerChecked |-> FALSE,
   issuerUsable |-> FALSE, selfSigned |-> FALSE]

\* a goroutine that is not inside ACMECertificateFactory.New
NoOrder ==
  [pc |-> "idle", registration |-> NoRegistration, loaded |-> <<>>, list |-> <<>>,
   before |-> NoData, valid |-> FALSE, err |-> FALSE, cause |-> "", wrote |-> FALSE,
   persisted |-> FALSE, keyFactory |-> "", keyType |-> ""]

(***************************************************************************)
(* State.                                                                  *)
(***************************************************************************)
Idle ==
  [pc |-> "idle", name |-> <<>>, ext |-> <<>>, files |-> {}, release |-> FALSE,
   key |-> Nil, made |-> Nil, err |-> FALSE, disk0 |-> <<>>, entries0 |-> <<>>]

NoCursor ==
  [live |-> FALSE, shared |-> FALSE, entries |-> <<>>, len |-> 0, next |-> 0,
   origin |-> <<>>]

NoHandle == <<47>>

EmptyCaches == [k \in Kinds |-> <<>>]

\* the names a cursor iterates: a slice of the store's backing array while
\* the array is shared with the store, its own array afterwards
CursorView(cur, list) ==
  IF cur.shared THEN SubSeq(list, 1, cur.len) ELSE cur.entries

\* reader ghost: the strongest overlap of a reader call with a create seen
\* so far ("quiescent" < "concurrent" < "partial"): "partial" when the call
\* is about the name a create is working on while that create has staged
\* files which are not all written
Observe(name) ==
  IF lock = 0 THEN observed
  ELSE IF op[lock].name = name /\ op[lock].files # {} /\ op[lock].release
          /\ op[lock].pc \notin {"idle", "commit", "unlock"}
    THEN "partial"
  ELSE IF observed = "partial" THEN "partial"
  ELSE "concurrent"

\* no function has been called
NoCall == [fn |-> "", in |-> <<>>, out |-> <<>>]

\* the sync.RWMutex values of the program: FSStore.lock,
\* providerRegistrationsFileMutex, stateMutex
MutexNames == {"store", "registry", "state"}

\* an RWMutex nobody holds or waits for: the goroutine holding it for
\* writing, the goroutines holding it for reading, the goroutines inside
\* Lock()
NoMutex == [writer |-> 0, readers |-> {}, pending |-> {}]

\* no Secret has been constructed
NoSecret == [allocated |-> FALSE, key |-> <<>>, wrapped |-> <<>>]

\* the store before it is opened, no request being served
InitStoreAt(d, dir) ==
  /\ disk = d
  /\ storeDir = dir
  /\ secret = loadFSStoreSettings(disk, storeDir).Secret
  /\ opened = FALSE
  /\ entries = <<>>
  /\ entriesCap = 0
  /\ cache = EmptyCaches
  /\ lock = 0
  /\ op = [t \in Threads |-> Idle]
  /\ cursor = NoCursor
  /\ handle = NoHandle
  /\ observed = "quiescent"
  /\ request = [t \in Threads |-> NoRequest]
  /\ call = NoCall
  /\ wrapper = NoSecret
  /\ unwrapped = <<>>
  /\ heap = <<>>
  /\ mutexes = [m \in MutexNames |-> NoMutex]
  /\ goroutine = [t \in Threads |-> <<>>]

InitStore(unitSet) == \E units \in SUBSET unitSet : InitStoreAt(InitDisk(units), "dir")

\* the registry with the registrations data
InitRegistryWith(data) ==
  /\ state = [path \in {providerRegistrationsFile} |-> data]
  /\ regMutex = 0
  /\ acme = [t \in Threads |-> NoOrder]

\* the package state with a handler in use: nothing written, no call
InitStateWith(handler) ==
  /\ stateHandler = handler
  /\ stateMutex = [writer |-> 0, readers |-> {}]
  /\ stateOp = [t \in Threads |-> NoStateOp]
  /\ store = [path \in StatePaths |-> [data |-> NoData, wrote |-> FALSE]]
  /\ files = [file \in FsFiles |-> NoData]

InitWith(unitSet) ==
  InitStore(unitSet) /\ InitRegistryWith(NoData) /\ InitStateWith(defaultHandler)

(***************************************************************************)
(* Open.                                                                   *)
(***************************************************************************)
\* FSStore.scan, the last step of newFSStore
scan ==
  /\ ~opened
  /\ LET r == scanDisk(disk)
     IN /\ entries' = r.entries
        /\ entriesCap' = r.cap
  /\ opened' = TRUE
  /\ UNCHANGED <<disk, secret, cache, lock, op, cursor, handle, observed>>
  /\ UNCHANGED <<request, registryVars, callVars, handlerVars, storeDir>>

\* the process ends and a new one opens the store directory again:
\* newFSStore up to the construction of the FSStore value
newFSStore ==
  /\ opened
  /\ lock = 0
  /\ secret' = loadFSStoreSettings(disk, storeDir).Secret
  /\ opened' = FALSE
  /\ entries' = <<>>
  /\ entriesCap' = 0
  /\ cache' = EmptyCaches
  /\ op' = [t \in Threads |-> Idle]
  /\ cursor' = NoCursor
  /\ handle' = NoHandle
  /\ observed' = "quiescent"
  /\ UNCHANGED <<disk, lock>>
  /\ UNCHANGED <<request, registryVars, callVars, handlerVars, storeDir>>

\* the process is terminated while a create is between its first
\* fileGroup.create and its deferred close (factory.New of an ACME order
\* waits for the network there): the deferred calls never run, the staged
\* files stay, and a new process opens the store directory
processKilled ==
  /\ opened
  /\ lock # 0
  /\ op[lock].pc \notin {"idle", "unlock"}
  /\ lock' = 0
  /\ secret' = loadFSStoreSettings(disk, storeDir).Secret
  /\ opened' = FALSE
  /\ entries' = <<>>
  /\ entriesCap' = 0
  /\ cache' = EmptyCaches
  /\ op' = [t \in Threads |-> Idle]
  /\ cursor' = NoCursor
  /\ handle' = NoHandle
  /\ observed' = "quiescent"
  /\ UNCHANGED disk
  /\ UNCHANGED <<request, registryVars, callVars, handlerVars, storeDir>>

\* the generated secrets of new stores
Secrets == {1, 2}

\* fsstore.Init(path): newFSStore(path, true), that is initFSStore with a
\* random secret, then as Open
fsstore_Init ==
  /\ ~opened
  /\ \E s \in Secrets :
       LET w == writeFSStoreSettings(disk, storeDir, s)
           settings == loadFSStoreSettings(w.disk, w.dir)
           r == scanDisk(w.disk)
           ok == w.err = "" /\ settings.err = ""
       IN /\ disk' = w.disk
          /\ storeDir' = w.dir
          /\ opened' = ok
          /\ secret' = IF ok THEN settings.Secret ELSE secret
          /\ entries' = IF ok THEN r.entries ELSE entries
          /\ entriesCap' = IF ok THEN r.cap ELSE entriesCap
          /\ call' = [fn |-> "Init",
                      in |-> [dir |-> storeDir, settings |-> disk[settingsFile]],
                      out |-> IF w.err # "" THEN w.err ELSE settings.err]
  /\ UNCHANGED <<cache, lock, op, cursor, handle, observed>>
  /\ UNCHANGED <<request, registryVars, handlerVars, secretVars, lockVars>>

\* fsstore.Open(path): newFSStore(path, false), that is loadFSStoreSettings,
\* security.Wrap and scan
fsstore_Open ==
  /\ ~opened
  /\ LET settings == loadFSStoreSettings(disk, storeDir)
         r == scanDisk(disk)
         ok == settings.err = ""
     IN /\ opened' = ok
        /\ secret' = IF ok THEN settings.Secret ELSE secret
        /\ entries' = IF ok THEN r.entries ELSE entries
        /\ entriesCap' = IF ok THEN r.cap ELSE entriesCap
        /\ call' = [fn |-> "Open",
                    in |-> [dir |-> storeDir, settings |-> disk[settingsFile]],
                    out |-> settings.err]
  /\ UNCHANGED <<disk, storeDir, cache, lock, op, cursor, handle, observed>>
  /\ UNCHANGED <<request, registryVars, handlerVars, secretVars, lockVars>>

\* the steps of initFSStore that the environment can make fail: rand.Read,
\* os.Mkdir (parent directory missing or not writable) and os.WriteFile
InitFaults == {"rand", "mkdir", "write"}

\* what a failing os.WriteFile leaves of the settings file: nothing (the
\* open has failed) or the file it has created, without the document
PartialSettings == {Absent, File(<<>>)}

\* initFSStore with the step named by fault failing: json.MarshalIndent and
\* rand.Read come before os.Mkdir, os.WriteFile comes after it, and no
\* step removes the directory again
initFSStore(d, dir, s, fault, partial) ==
  IF fault = "rand" THEN [err |-> "rand", dir |-> dir, disk |-> d]
  ELSE IF fault = "mkdir" \/ dir # "absent" THEN [err |-> "mkdir", dir |-> dir, disk |-> d]
  ELSE IF fault = "write"
    THEN [err |-> "write", dir |-> "dir", disk |-> [d EXCEPT ![settingsFile] = partial]]
  ELSE writeFSStoreSettings(d, dir, s)

\* fsstore.Init(path) with a failing step: newFSStore returns the error of
\* initFSStore and no store
fsstore_InitFailing ==
  /\ ~opened
  /\ \E s \in Secrets, fault \in InitFaults, partial \in PartialSettings :
       LET w == initFSStore(disk, storeDir, s, fault, partial)
       IN /\ disk' = w.disk
          /\ storeDir' = w.dir
          /\ call' = [fn |-> "Init",
                      in |-> [dir |-> storeDir, settings |-> disk[settingsFile]],
                      out |-> w.err]
  /\ UNCHANGED <<opened, secret, entries, entriesCap>>
  /\ UNCHANGED <<cache, lock, op, cursor, handle, observed>>
  /\ UNCHANGED <<request, registryVars, handlerVars, secretVars, lockVars>>

(***************************************************************************)
(* Create.  CreateCertificate and CreateCertificateRequest run the same    *)
(* steps; op[t].ext is the extension of the artifact (.crt or .csr).       *)
(***************************************************************************)
\* store.lock.Lock() and newFileGroup
Begin(t, name, ext) ==
  /\ opened
  /\ op[t].pc = "idle"
  /\ lock = 0
  /\ lock' = t
  /\ op' = [op EXCEPT ![t] =
       [pc |-> "createKey", name |-> name, ext |-> ext, files |-> {},
        release |-> TRUE, key |-> Nil, made |-> Nil, err |-> FALSE,
        disk0 |-> disk, entries0 |-> entries]]
  /\ UNCHANGED <<disk, secret, opened, entries, entriesCap, cache, cursor, handle, observed>>
  /\ UNCHANGED <<registryVars, callVars, handlerVars, storeDir>>

\* the store's CreateCertificate, called directly
CreateCertificate(t, name) == Begin(t, name, crtExtension) /\ UNCHANGED request

\* the store's CreateCertificateRequest, called directly
CreateCertificateRequest(t, name) == Begin(t, name, csrExtension) /\ UNCHANGED request

\* mutant: os.OpenFile(path, O_CREATE|O_WRONLY) succeeds
CanCreate_noExcl(d, path) == path \in DOMAIN d /\ ~IsDir(d, path) /\ ParentExists(d, path)

\* os.OpenFile(path, O_CREATE|O_EXCL|O_WRONLY) succeeds
CanCreate(d, path) == path \in DOMAIN d /\ ~Exists(d, path) /\ ParentExists(d, path)

\* mutant: the target file is opened without O_EXCL
fileGroupCreate_truncate(t) ==
  /\ op[t].pc \in {"createKey", "createArtifact", "createAttributes"}
  /\ LET extension == IF op[t].pc = "createKey" THEN keyExtension
                      ELSE IF op[t].pc = "createArtifact" THEN op[t].ext
                      ELSE attributesExtension
         next == IF op[t].pc = "createKey" THEN "createArtifact"
                 ELSE IF op[t].pc = "createArtifact" THEN "createAttributes"
                 ELSE "factoryNew"
         filePath == FilePath(op[t].name, extension)
     IN IF filePath \in DOMAIN disk /\ ParentExists(disk, filePath)
          THEN /\ disk' = [disk EXCEPT ![filePath] = File(<<>>)]
               /\ op' = [op EXCEPT ![t].files = @ \cup {extension}, ![t].pc = next]
          ELSE /\ disk' = disk
               /\ op' = [op EXCEPT ![t].err = TRUE, ![t].pc = "close"]
  /\ UNCHANGED <<secret, opened, entries, entriesCap, cache, lock, cursor, handle, observed>>
  /\ UNCHANGED <<request, registryVars, callVars, handlerVars, storeDir>>

\* files.create(extension), called for .key, the artifact and .json in turn
fileGroupCreate(t) ==
  /\ op[t].pc \in {"createKey", "createArtifact", "createAttributes"}
  /\ LET extension == IF op[t].pc = "createKey" THEN keyExtension
                      ELSE IF op[t].pc = "createArtifact" THEN op[t].ext
                      ELSE attributesExtension
         next == IF op[t].pc = "createKey" THEN "createArtifact"
                 ELSE IF op[t].pc = "createArtifact" THEN "createAttributes"
                 ELSE "factoryNew"
         filePath == FilePath(op[t].name, extension)
     IN IF CanCreate(disk, filePath)
          THEN /\ disk' = [disk EXCEPT ![filePath] = File(<<>>)]
               /\ op' = [op EXCEPT ![t].files = @ \cup {extension}, ![t].pc = next]
          ELSE /\ disk' = disk
               /\ op' = [op EXCEPT ![t].err = TRUE, ![t].pc = "close"]
  /\ UNCHANGED <<secret, opened, entries, entriesCap, cache, lock, cursor, handle, observed>>
  /\ UNCHANGED <<request, registryVars, callVars, handlerVars, storeDir>>

\* factory.New(): the provider fails, or produces a key and an artifact
\* (certs: the certificates, or requests, the factory can produce)
factoryNew(t, certs) ==
  /\ op[t].pc = "factoryNew"
  /\ \/ op' = [op EXCEPT ![t].err = TRUE, ![t].pc = "close"]
     \/ /\ op[t].ext = crtExtension
        /\ \E c \in certs :
             op' = [op EXCEPT ![t].key = PrivateKey(1), ![t].made = Certificate(c),
                              ![t].pc = "writeKey"]
     \/ /\ op[t].ext = csrExtension
        /\ op' = [op EXCEPT ![t].key = PrivateKey(1), ![t].made = CertificateRequest(1),
                            ![t].pc = "writeKey"]
  /\ UNCHANGED <<disk, secret, opened, entries, entriesCap, cache, lock, cursor, handle, observed>>
  /\ UNCHANGED <<request, registryVars, callVars, handlerVars, storeDir>>

\* what a write that failed left in the file: nothing, or a part of the data
Partial == {<<>>, <<Garbage>>}

\* store.writeKey
writeKey(t) ==
  /\ op[t].pc = "writeKey"
  /\ LET filePath == FilePath(op[t].name, keyExtension)
     IN \/ /\ disk' = [disk EXCEPT ![filePath] =
                 File(<<EncryptPEMBlock("PRIVATE KEY", Raw(op[t].key), secret)>>)]
           /\ op' = [op EXCEPT ![t].pc = "writeArtifact"]
        \/ /\ \E part \in Partial : disk' = [disk EXCEPT ![filePath] = File(part)]
           /\ op' = [op EXCEPT ![t].err = TRUE, ![t].pc = "close"]
  /\ UNCHANGED <<secret, opened, entries, entriesCap, cache, lock, cursor, handle, observed>>
  /\ UNCHANGED <<request, registryVars, callVars, handlerVars, storeDir>>

\* store.writeCertificate / store.writeCertificateRequest
writeArtifact(t) ==
  /\ op[t].pc = "writeArtifact"
  /\ LET filePath == FilePath(op[t].name, op[t].ext)
     IN \/ /\ disk' = [disk EXCEPT ![filePath] =
                 File(<<PemBlock(PemType(op[t].ext), Raw(op[t].made))>>)]
           /\ cache' = [cache EXCEPT ![op[t].ext] = CacheSet(@, op[t].name, op[t].made)]
           /\ op' = [op EXCEPT ![t].pc = "writeAttributes"]
        \/ /\ \E part \in Partial : disk' = [disk EXCEPT ![filePath] = File(part)]
           /\ cache' = cache
           /\ op' = [op EXCEPT ![t].err = TRUE, ![t].pc = "close"]
  /\ UNCHANGED <<secret, opened, entries, entriesCap, lock, cursor, handle, observed>>
  /\ UNCHANGED <<request, registryVars, callVars, handlerVars, storeDir>>

\* store.writeAttributes
writeAttributes(t) ==
  /\ op[t].pc = "writeAttributes"
  /\ LET filePath == FilePath(op[t].name, attributesExtension)
         attributes == Attributes(1)
     IN \/ /\ disk' = [disk EXCEPT ![filePath] =
                 File(<<JsonDoc(MarshalAttributes(attributes))>>)]
           /\ cache' = [cache EXCEPT ![attributesExtension] =
                 CacheSet(@, op[t].name, attributes)]
           /\ op' = [op EXCEPT ![t].pc = "commit"]
        \/ /\ \E part \in Partial : disk' = [disk EXCEPT ![filePath] = File(part)]
           /\ cache' = cache
           /\ op' = [op EXCEPT ![t].err = TRUE, ![t].pc = "close"]
  /\ UNCHANGED <<secret, opened, entries, entriesCap, lock, cursor, handle, observed>>
  /\ UNCHANGED <<request, registryVars, callVars, handlerVars, storeDir>>

\* mutant: the commit keeps the files but forgets the index
commit_withoutAppend(t) ==
  /\ op[t].pc = "commit"
  /\ op' = [op EXCEPT ![t].release = FALSE, ![t].pc = "close"]
  /\ UNCHANGED <<disk, secret, opened, entries, entriesCap, cache, lock, cursor, handle, observed>>
  /\ UNCHANGED <<request, registryVars, callVars, handlerVars, storeDir>>

\* files.keep(); store.entries = append(store.entries, name);
\* sort.Strings(store.entries).  The sort works in place on the backing
\* array, which a cursor shares unless append allocated a new array.
commit(t) ==
  /\ op[t].pc = "commit"
  /\ LET a == AppendSlice(entries, entriesCap, op[t].name)
     IN /\ entries' = SortStrings(a.entries)
        /\ entriesCap' = a.cap
        /\ cursor' = IF a.realloc /\ cursor.shared
                       THEN [cursor EXCEPT !.shared = FALSE,
                                           !.entries = CursorView(cursor, entries)]
                       ELSE cursor
  /\ op' = [op EXCEPT ![t].release = FALSE, ![t].pc = "close"]
  /\ UNCHANGED <<disk, secret, opened, cache, lock, handle, observed>>
  /\ UNCHANGED <<request, registryVars, callVars, handlerVars, storeDir>>

\* mutant: close never removes a file
fileGroupClose_keepsUncommitted(t) ==
  /\ op[t].pc = "close"
  /\ op' = [op EXCEPT ![t].files = {}, ![t].pc = "unlock"]
  /\ UNCHANGED <<disk, secret, opened, entries, entriesCap, cache, lock, cursor, handle, observed>>
  /\ UNCHANGED <<request, registryVars, callVars, handlerVars, storeDir>>

\* mutant: close removes every file of the group, opened by it or not
fileGroupClose_removesGroup(t) ==
  /\ op[t].pc = "close"
  /\ disk' = [p \in DOMAIN disk |->
       IF op[t].release
            /\ \E e \in {keyExtension, op[t].ext, attributesExtension} :
                 p = FilePath(op[t].name, e)
         THEN Absent ELSE disk[p]]
  /\ op' = [op EXCEPT ![t].files = {}, ![t].pc = "unlock"]
  /\ UNCHANGED <<secret, opened, entries, entriesCap, cache, lock, cursor, handle, observed>>
  /\ UNCHANGED <<request, registryVars, callVars, handlerVars, storeDir>>

\* files.close() (deferred): closes every file the group opened and, unless
\* the group is kept, removes it
fileGroupClose(t) ==
  /\ op[t].pc = "close"
  /\ disk' = [p \in DOMAIN disk |->
       IF op[t].release /\ \E e \in op[t].files : p = FilePath(op[t].name, e)
         THEN Absent ELSE disk[p]]
  /\ op' = [op EXCEPT ![t].files = {}, ![t].pc = "unlock"]
  /\ UNCHANGED <<secret, opened, entries, entriesCap, cache, lock, cursor, handle, observed>>
  /\ UNCHANGED <<request, registryVars, callVars, handlerVars, storeDir>>

\* mutant: the lock is released on the success path only
Unlock_onSuccessOnly(t) ==
  /\ op[t].pc = "unlock"
  /\ lock' = IF op[t].err THEN lock ELSE 0
  /\ handle' = IF op[t].err THEN handle ELSE op[t].name
  /\ op' = [op EXCEPT ![t] = Idle]
  /\ UNCHANGED <<disk, secret, opened, entries, entriesCap, cache, cursor, observed>>
  /\ UNCHANGED <<registryVars, callVars, handlerVars, storeDir>>

\* store.lock.Unlock() (deferred) and the return of the entry or the error
Unlock(t) ==
  /\ op[t].pc = "unlock"
  /\ lock' = 0
  /\ handle' = IF op[t].err THEN handle ELSE op[t].name
  /\ op' = [op EXCEPT ![t] = Idle]
  /\ UNCHANGED <<disk, secret, opened, entries, entriesCap, cache, cursor, observed>>
  /\ UNCHANGED <<registryVars, callVars, handlerVars, storeDir>>

(***************************************************************************)
(* Readers.                                                                *)
(***************************************************************************)
\* FSStore.Entries: under the read lock
Entries ==
  /\ opened
  /\ lock = 0
  /\ cursor' = [live |-> TRUE, shared |-> TRUE, entries |-> <<>>,
                len |-> Len(entries), next |-> 0, origin |-> entries]
  /\ UNCHANGED <<disk, secret, opened, entries, entriesCap, cache, lock, op, handle, observed>>
  /\ UNCHANGED <<request, registryVars, callVars, handlerVars, storeDir>>

\* fsStoreEntries.Next: no lock
EntriesNext ==
  /\ opened
  /\ cursor.live
  /\ cursor.next < cursor.len
  /\ handle' = CursorView(cursor, entries)[cursor.next + 1]
  /\ cursor' = [cursor EXCEPT !.next = @ + 1]
  /\ UNCHANGED <<disk, secret, opened, entries, entriesCap, cache, lock, op, observed>>
  /\ UNCHANGED <<request, registryVars, callVars, handlerVars, storeDir>>

\* fsStoreEntries.Reset
Reset ==
  /\ opened
  /\ cursor.live
  /\ cursor.next > 0
  /\ cursor' = [cursor EXCEPT !.next = 0]
  /\ UNCHANGED <<disk, secret, opened, entries, entriesCap, cache, lock, op, handle, observed>>
  /\ UNCHANGED <<request, registryVars, callVars, handlerVars, storeDir>>

\* mutant: the lookup finds listable entries only
Entry_listableOnly(name) ==
  /\ opened
  /\ lock = 0
  /\ handle' = IF validateStoreEntry(disk, name) THEN name ELSE NoHandle
  /\ UNCHANGED <<disk, secret, opened, entries, entriesCap, cache, lock, op, cursor, observed>>
  /\ UNCHANGED <<request, registryVars, callVars, handlerVars, storeDir>>

\* FSStore.Entry: under the read lock; the caller gets the handle, or nil
\* with fs.ErrNotExist
Entry(name) ==
  /\ opened
  /\ lock = 0
  /\ handle' = IF hasAttributes(disk, name) THEN name ELSE NoHandle
  /\ UNCHANGED <<disk, secret, opened, entries, entriesCap, cache, lock, op, cursor, observed>>
  /\ UNCHANGED <<request, registryVars, callVars, handlerVars, storeDir>>

\* fsStoreEntry.HasKey / HasCertificate / HasCertificateRequest /
\* HasRevocationList (an os.Stat) and fsStoreEntry.Key (readKey, which
\* caches nothing): no lock, no effect on the store
Has(ext) ==
  /\ opened
  /\ handle # NoHandle
  /\ observed' = Observe(handle)
  /\ UNCHANGED <<disk, secret, opened, entries, entriesCap, cache, lock, op, cursor, handle>>
  /\ UNCHANGED <<request, registryVars, callVars, handlerVars, storeDir>>

HasKey == Has(keyExtension)
HasCertificate == Has(crtExtension)
HasCertificateRequest == Has(csrExtension)
HasRevocationList == Has(crlExtension)
Key == Has(keyExtension)

\* fsStoreEntry.Certificate / CertificateRequest / Attributes: no lock
Read(ext, result) ==
  /\ opened
  /\ handle # NoHandle
  /\ cache' = [cache EXCEPT ![ext] = result.cache]
  /\ observed' = Observe(handle)
  /\ UNCHANGED <<disk, secret, opened, entries, entriesCap, lock, op, cursor, handle>>
  /\ UNCHANGED <<request, registryVars, callVars, handlerVars, storeDir>>

EntryCertificate == Read(crtExtension, readCertificate(disk, cache[crtExtension], handle))

EntryCertificateRequest ==
  Read(csrExtension, readCertificateRequest(disk, cache[csrExtension], handle))

EntryAttributes ==
  Read(attributesExtension, readAttributes(disk, cache[attributesExtension], handle))

(***************************************************************************)
(* The generate handlers of the server (server_store.go).                  *)
(***************************************************************************)
\* "ACME:"
ProviderPrefix == <<65, 67, 77, 69, 58>>

\* the key types getKeyFactory knows
KeyTypes ==
  {"ECDSA P-224", "ECDSA P-256", "ECDSA P-384", "ECDSA P-521", "ED25519",
   "RSA 2048", "RSA 3072", "RSA 4096"}

\* the key pair factories: an ECDSA factory of a curve, the ED25519 factory,
\* an RSA factory of a number of bits
NewECDSAKeyPairFactory(curve) == [provider |-> "ECDSA", curve |-> curve, bits |-> 0]
NewED25519KeyPairFactory == [provider |-> "ED25519", curve |-> 0, bits |-> 0]
NewRSAKeyPairFactory(bits) == [provider |-> "RSA", curve |-> 0, bits |-> bits]
NoFactory == [provider |-> "", curve |-> 0, bits |-> 0]

\* elliptic.P224() ... P521(), by their number; Params().Name
CurveName(curve) == "P-" \o ToString(curve)

\* KeyPairFactory.Name
FactoryName(factory) ==
  IF factory.provider = "ECDSA" THEN "ECDSA " \o CurveName(factory.curve)
  ELSE IF factory.provider = "RSA" THEN "RSA " \o ToString(factory.bits)
  ELSE factory.provider

\* StandardKeys of the packages ecdsa, ed25519 and rsa, in the order of the
\* registry's init
StandardKeys ==
  << NewECDSAKeyPairFactory(224), NewECDSAKeyPairFactory(256),
     NewECDSAKeyPairFactory(384), NewECDSAKeyPairFactory(521),
     NewED25519KeyPairFactory,
     NewRSAKeyPairFactory(2048), NewRSAKeyPairFactory(3072), NewRSAKeyPairFactory(4096) >>

\* registry.StandardKey: the map filled by init (a later factory of a name
\* replaces an earlier one), nil for a name that is no key of the map
StandardKey(name) ==
  IF \E i \in 1..Len(StandardKeys) : FactoryName(StandardKeys[i]) = name
    THEN StandardKeys[CHOOSE i \in 1..Len(StandardKeys) :
           /\ FactoryName(StandardKeys[i]) = name
           /\ \A j \in (i + 1)..Len(StandardKeys) : FactoryName(StandardKeys[j]) # name]
    ELSE NoFactory

\* server.getKeyFactory
getKeyFactory(keyType) ==
  CASE keyType = "ECDSA P-224" -> [err |-> FALSE, factory |-> NewECDSAKeyPairFactory(224)]
    [] keyType = "ECDSA P-256" -> [err |-> FALSE, factory |-> NewECDSAKeyPairFactory(256)]
    [] keyType = "ECDSA P-384" -> [err |-> FALSE, factory |-> NewECDSAKeyPairFactory(384)]
    [] keyType = "ECDSA P-521" -> [err |-> FALSE, factory |-> NewECDSAKeyPairFactory(521)]
    [] keyType = "ED25519" -> [err |-> FALSE, factory |-> NewED25519KeyPairFactory]
    [] keyType = "RSA 2048" -> [err |-> FALSE, factory |-> NewRSAKeyPairFactory(2048)]
    [] keyType = "RSA 3072" -> [err |-> FALSE, factory |-> NewRSAKeyPairFactory(3072)]
    [] keyType = "RSA 4096" -> [err |-> FALSE, factory |-> NewRSAKeyPairFactory(4092)]
    [] OTHER -> [err |-> TRUE, factory |-> NoFactory]

\* key type names of requests: the names getKeyFactory knows and others
KeyTypeNames == KeyTypes \cup {"RSA 4092", "RSA 8192", "DSA", ""}

\* a call of getKeyFactory
getKeyFactoryCall(keyType) ==
  /\ call' = [fn |-> "getKeyFactory", in |-> keyType, out |-> getKeyFactory(keyType)]
  /\ UNCHANGED <<storeVars, request, registryVars, handlerVars, secretVars, lockVars>>

\* a call of registry.StandardKey
StandardKeyCall(name) ==
  /\ call' = [fn |-> "StandardKey", in |-> name, out |-> StandardKey(name)]
  /\ UNCHANGED <<storeVars, request, registryVars, handlerVars, secretVars, lockVars>>

\* certs.ParseDN
ParseDN(dn) == [err |-> dn # "CN=x"]

\* getACMEProvider
getACMEProvider(ca) == [err |-> ~HasPrefix(ca, ProviderPrefix)]

\* a request body that passes every validation
GoodBody ==
  [syntax |-> FALSE, mistyped |-> "", name |-> NameAD, dn |-> "CN=x",
   keyType |-> "RSA 2048", issuer |-> <<>>, ca |-> ProviderPrefix \o <<112>>]

\* the request bodies: the good one and the ones that differ from it in one
\* respect: a body that is no JSON (syntax), a JSON object in which the
\* member mistyped has a value of the wrong type ("ca": a number;
\* "domains": a string), an unknown key type, a DN that does not parse, an
\* issuer (which the store may hold or not), a CA without the ACME prefix
Bodies ==
  { GoodBody,
    [GoodBody EXCEPT !.syntax = TRUE],
    [GoodBody EXCEPT !.mistyped = "ca"],
    [GoodBody EXCEPT !.mistyped = "domains"],
    [GoodBody EXCEPT !.keyType = "DSA"],
    [GoodBody EXCEPT !.dn = "CN"],
    [GoodBody EXCEPT !.issuer = NameA],
    [GoodBody EXCEPT !.ca = <<112>>] }

\* json.NewDecoder(body).Decode(&request): a syntax error is found before
\* any field is set; a type error skips the member and decodes the others
Decode(body) ==
  IF body.syntax
    THEN [err |-> TRUE,
          val |-> [name |-> <<>>, dn |-> "", keyType |-> "", issuer |-> <<>>, ca |-> <<>>]]
    ELSE [err |-> body.mistyped # "",
          val |-> [name |-> body.name, dn |-> body.dn, keyType |-> body.keyType,
                   issuer |-> body.issuer,
                   ca |-> IF body.mistyped = "ca" THEN <<>> ELSE body.ca]]

\* server.resolveIssuer: [err, found, cache]
resolveIssuer(d, c, password, issuer) ==
  IF ~hasAttributes(d, issuer) THEN [err |-> FALSE, found |-> FALSE, cache |-> c, parent |-> Nil]
  ELSE LET parent == readCertificate(d, c, issuer)
           signer == readKey(d, password, issuer)
       IN IF parent.err \/ parent.val = Nil
            THEN [err |-> parent.err, found |-> FALSE, cache |-> parent.cache, parent |-> Nil]
          ELSE IF signer.err \/ signer.val = Nil
            THEN [err |-> signer.err, found |-> FALSE, cache |-> parent.cache, parent |-> Nil]
          ELSE [err |-> FALSE, found |-> TRUE, cache |-> parent.cache, parent |-> parent.val]

\* the request passes the validation the handler is to perform: the body
\* decodes, the key type is known, the DN parses, the issuer resolves, the
\* ACME CA is recognised
ValidRequest(handler, body) ==
  /\ ~body.syntax /\ body.mistyped = ""
  /\ body.keyType \in KeyTypes
  /\ handler \in {"local", "remote"} => body.dn = "CN=x"
  /\ handler = "local" /\ body.issuer # <<>> =>
       resolveIssuer(disk, cache[crtExtension], secret, body.issuer).found
  /\ handler = "acme" => HasPrefix(body.ca, ProviderPrefix)

\* the entry named as issuer exists and has a certificate file and a key file
IssuerUsable(d, issuer) ==
  hasAttributes(d, issuer) /\ hasCertificate(d, issuer) /\ hasKey(d, issuer)

\* what is recorded of the issuer of a request: the issuer of the body,
\* whether the handler has come to look it up (the body decodes and the key
\* type is known), and whether the entry is usable at that moment
IssuerOf(handler, body) ==
  IF handler = "local" /\ ~Decode(body).err
       /\ ~getKeyFactory(Decode(body).val.keyType).err
    THEN [issuer |-> Decode(body).val.issuer, issuerChecked |-> TRUE,
          issuerUsable |-> IssuerUsable(disk, Decode(body).val.issuer)]
    ELSE [issuer |-> <<>>, issuerChecked |-> FALSE, issuerUsable |-> FALSE]

\* LocalCertificateFactory.New: the certificate is signed with the signer
\* of the parent, or with the new key if there is no parent
LocalCertificateFactoryNew(parent) == [selfSigned |-> parent = Nil]

\* the handler answers with status and returns
Abort(t, handler, body, status) ==
  request' = [request EXCEPT ![t] =
    [handler |-> handler, live |-> FALSE, valid |-> ValidRequest(handler, body),
     pc |-> "", status |-> status, name |-> <<>>, ext |-> <<>>,
     issuer |-> IssuerOf(handler, body).issuer,
     issuerChecked |-> IssuerOf(handler, body).issuerChecked,
     issuerUsable |-> IssuerOf(handler, body).issuerUsable,
     selfSigned |-> FALSE]]

\* the handler goes on to the create of the store; status is what it has
\* written to the response so far, parent the certificate a local
\* certificate is to be signed under
Proceed(t, handler, body, status, name, ext, parent) ==
  request' = [request EXCEPT ![t] =
    [handler |-> handler, live |-> TRUE, valid |-> ValidRequest(handler, body),
     pc |-> "create", status |-> status, name |-> name, ext |-> ext,
     issuer |-> IssuerOf(handler, body).issuer,
     issuerChecked |-> IssuerOf(handler, body).issuerChecked,
     issuerUsable |-> IssuerOf(handler, body).issuerUsable,
     selfSigned |-> handler = "local" /\ LocalCertificateFactoryNew(parent).selfSigned]]

\* server.storeLocalGenerate up to the call of the store
storeLocalGenerate(t, body) ==
  /\ opened
  /\ lock = 0
  /\ ~request[t].live
  /\ op[t].pc = "idle"
  /\ LET d == Decode(body)
         generateLocal == d.val
         issuer == resolveIssuer(disk, cache[crtExtension], secret, generateLocal.issuer)
     IN IF d.err
          THEN Abort(t, "local", body, 400) /\ cache' = cache
        ELSE IF getKeyFactory(generateLocal.keyType).err
          THEN Abort(t, "local", body, 400) /\ cache' = cache
        ELSE IF generateLocal.issuer # <<>> /\ issuer.err
          THEN /\ Abort(t, "local", body, 500)
               /\ cache' = [cache EXCEPT ![crtExtension] = issuer.cache]
        ELSE IF generateLocal.issuer # <<>> /\ ~issuer.found
          THEN /\ Abort(t, "local", body, 400)
               /\ cache' = [cache EXCEPT ![crtExtension] = issuer.cache]
        ELSE IF ParseDN(generateLocal.dn).err
          THEN /\ Abort(t, "local", body, 400)
               /\ cache' = IF generateLocal.issuer # <<>>
                             THEN [cache EXCEPT ![crtExtension] = issuer.cache]
                             ELSE cache
        ELSE /\ Proceed(t, "local", body, 0, generateLocal.name, crtExtension,
                        IF generateLocal.issuer # <<>> THEN issuer.parent ELSE Nil)
             /\ cache' = IF generateLocal.issuer # <<>>
                           THEN [cache EXCEPT ![crtExtension] = issuer.cache]
                           ELSE cache
  /\ UNCHANGED <<disk, secret, opened, entries, entriesCap, lock, op, cursor, handle, observed>>
  /\ UNCHANGED <<registryVars, callVars, handlerVars, storeDir>>

\* server.storeRemoteGenerate up to the call of the store: the branch of
\* the decoding error has no return
storeRemoteGenerate(t, body) ==
  /\ opened
  /\ ~request[t].live
  /\ op[t].pc = "idle"
  /\ LET d == Decode(body)
         generateRemote == d.val
         status == IF d.err THEN 400 ELSE 0
     IN IF getKeyFactory(generateRemote.keyType).err
          THEN Abort(t, "remote", body, 400)
        ELSE IF ParseDN(generateRemote.dn).err
          THEN Abort(t, "remote", body, 400)
        ELSE Proceed(t, "remote", body, status, generateRemote.name, csrExtension, Nil)
  /\ UNCHANGED storeVars
  /\ UNCHANGED <<registryVars, callVars, handlerVars, storeDir>>

\* server.storeACMEGenerate up to the call of the store: the branch of the
\* decoding error has no return
storeACMEGenerate(t, body) ==
  /\ opened
  /\ ~request[t].live
  /\ op[t].pc = "idle"
  /\ LET d == Decode(body)
         generateACME == d.val
         status == IF d.err THEN 400 ELSE 0
     IN IF getKeyFactory(generateACME.keyType).err
          THEN Abort(t, "acme", body, 400)
        ELSE IF getACMEProvider(generateACME.ca).err
          THEN Abort(t, "acme", body, 400)
        ELSE Proceed(t, "acme", body, status, generateACME.name, crtExtension, Nil)
  /\ UNCHANGED storeVars
  /\ UNCHANGED <<registryVars, callVars, handlerVars, storeDir>>

\* s.store.CreateCertificate(name, factory) resp.
\* s.store.CreateCertificateRequest(name, factory) called by the handler
storeCreate(t) ==
  /\ request[t].live
  /\ request[t].pc = "create"
  /\ Begin(t, request[t].name, request[t].ext)
  /\ request' = [request EXCEPT ![t].pc = "wait"]

\* the create returns and the handler answers 200, or 404 for a failure
storeGenerateReturn(t) ==
  /\ request[t].live
  /\ request[t].pc = "wait"
  /\ Unlock(t)
  /\ request' = [request EXCEPT ![t].live = FALSE, ![t].pc = "",
                                ![t].status = IF request[t].status # 0 THEN request[t].status
                                              ELSE IF op[t].err THEN 404 ELSE 200]

(***************************************************************************)
(* ACME orders (ACMECertificateFactory.New) and the account registry.      *)
(***************************************************************************)
\* number of account resources the directory can answer a registration with
MaxResources == 1

Resources == 1..MaxResources

\* the records of the persisted registrations (none if they do not decode)
Records(st) == loadProviderRegistrations(st).val

SameKey(r, provider, email) == r.Provider = provider /\ r.Email = email

\* the index of the first record of (provider, email), or 0
updateIndex(list, provider, email) ==
  IF \E i \in 1..Len(list) : SameKey(list[i], provider, email)
    THEN CHOOSE i \in 1..Len(list) :
           /\ SameKey(list[i], provider, email)
           /\ \A j \in 1..(i - 1) : ~SameKey(list[j], provider, email)
    ELSE 0

\* the list after the replacement, or the append, of update
updatedRegistrations(list, update) ==
  LET i == updateIndex(list, update.Provider, update.Email)
  IN IF i > 0 THEN [list EXCEPT ![i] = update] ELSE Append(list, update)

\* defaultHandler.Write: the outcomes [err, data] of writing data
defaultHandlerWrite(old, data) == { [err |-> FALSE, data |-> data] }

\* what os.WriteFile leaves when the write fails after the file was opened
\* with O_TRUNC: an empty file or a part of the data
Truncated(data) ==
  { [written |-> TRUE, items |-> SubSeq(data.items, 1, k), complete |-> FALSE] :
      k \in 0..Len(data.items) }

\* fsHandler.Write: MkdirAll or the open fails (the file is as before), the
\* write fails after the truncation, or all is written
fsHandlerWrite(old, data) ==
  IF old = Directory THEN { [err |-> TRUE, data |-> old] }
  ELSE { [err |-> FALSE, data |-> [data EXCEPT !.written = TRUE]], [err |-> TRUE, data |-> old] }
         \cup { [err |-> TRUE, data |-> part] : part \in Truncated(data) }

\* stateHandler.Write of the handler in use
HandlerWrite(handler, old, data) ==
  IF handler = "fs" THEN fsHandlerWrite(old, data) ELSE defaultHandlerWrite(old, data)

\* mutant: a missing record is persisted by the lookup
getRegistration_persistsDefault(t, provider) ==
  /\ acme[t].pc = "idle"
  /\ regMutex = 0
  /\ LET loaded == loadProviderRegistrations(state)
         i == updateIndex(loaded.val, provider.Name, provider.RegistrationEmail)
         fresh == ProviderRegistration(provider.Name, provider.RegistrationEmail, t, 0)
     IN IF loaded.err
          THEN /\ acme' = [acme EXCEPT ![t].pc = "failed", ![t].err = TRUE, ![t].cause = "load"]
               /\ state' = state
        ELSE IF i > 0
          THEN /\ acme' = [acme EXCEPT ![t].pc = "keyType", ![t].registration = loaded.val[i]]
               /\ state' = state
        ELSE /\ acme' = [acme EXCEPT ![t].pc = "keyType", ![t].registration = fresh]
             /\ state' = [state EXCEPT ![providerRegistrationsFile] =
                            MarshalIndent(Append(loaded.val, fresh))]
  /\ UNCHANGED regMutex
  /\ UNCHANGED <<storeVars, request, callVars, handlerVars>>

\* getRegistration, called first by ACMECertificateFactory.New: under the
\* read lock; the record of the provider, or a new record with a key of its
\* own (the goroutine's number) and no registration
getRegistration(t, provider) ==
  /\ acme[t].pc = "idle"
  /\ regMutex = 0
  /\ LET loaded == loadProviderRegistrations(state)
         i == updateIndex(loaded.val, provider.Name, provider.RegistrationEmail)
         fresh == ProviderRegistration(provider.Name, provider.RegistrationEmail, t, 0)
     IN IF loaded.err
          THEN acme' = [acme EXCEPT ![t].pc = "failed", ![t].err = TRUE, ![t].cause = "load"]
        ELSE IF i > 0
          THEN acme' = [acme EXCEPT ![t].pc = "keyType", ![t].registration = loaded.val[i]]
        ELSE acme' = [acme EXCEPT ![t].pc = "keyType", ![t].registration = fresh]
  /\ UNCHANGED <<state, regMutex>>
  /\ UNCHANGED <<storeVars, request, callVars, handlerVars>>

\* ACMECertificateFactory.keyType: the key type of the directory client for
\* the name of the key pair factory
keyType(keyProvider) ==
  CASE keyProvider = "ECDSA P-256" -> [err |-> FALSE, keyType |-> "EC256"]
    [] keyProvider = "ECDSA P-384" -> [err |-> FALSE, keyType |-> "EC384"]
    [] keyProvider = "RSA 2048" -> [err |-> FALSE, keyType |-> "RSA2048"]
    [] keyProvider = "RSA 4096" -> [err |-> FALSE, keyType |-> "RSA4096"]
    [] keyProvider = "RSA 8192" -> [err |-> FALSE, keyType |-> "RSA8192"]
    [] OTHER -> [err |-> TRUE, keyType |-> ""]

\* the names of the key pair factories of orders: those of the factories of
\* getKeyFactory, and the names keyType knows
FactoryNames ==
  { FactoryName(getKeyFactory(k).factory) : k \in KeyTypes } \cup {"RSA 4096", "RSA 8192"}

\* mutant: a factory name without a key type is ordered with RSA2048
newClient_defaultKeyType(t, keyFactory) ==
  /\ acme[t].pc = "keyType"
  /\ acme' = [acme EXCEPT ![t].pc = "isValid", ![t].keyFactory = keyFactory,
                          ![t].keyType = IF keyType(keyFactory).err THEN "RSA2048"
                                         ELSE keyType(keyFactory).keyType]
  /\ UNCHANGED <<state, regMutex>>
  /\ UNCHANGED <<storeVars, request, callVars, handlerVars>>

\* ACMECertificateFactory.New after getRegistration: lego.NewConfig, keyType
\* for the order's key pair factory, lego.NewClient
newClient(t, keyFactory) ==
  /\ acme[t].pc = "keyType"
  /\ IF keyType(keyFactory).err
       THEN acme' = [acme EXCEPT ![t].pc = "failed", ![t].err = TRUE, ![t].cause = "keyType",
                                 ![t].keyFactory = keyFactory]
       ELSE acme' = [acme EXCEPT ![t].pc = "isValid", ![t].keyFactory = keyFactory,
                                 ![t].keyType = keyType(keyFactory).keyType]
  /\ UNCHANGED <<state, regMutex>>
  /\ UNCHANGED <<storeVars, request, callVars, handlerVars>>

\* ProviderRegistration.isValid: no registration, or the answer of the
\* directory to QueryRegistration (the client keeps the key type from here)
isValid(t) ==
  /\ acme[t].pc = "isValid"
  /\ \/ /\ acme[t].registration.Registration # 0
        /\ acme' = [acme EXCEPT ![t].pc = "obtain", ![t].valid = TRUE,
                                ![t].keyFactory = "", ![t].keyType = ""]
     \/ acme' = [acme EXCEPT ![t].pc = "register", ![t].valid = FALSE,
                             ![t].keyFactory = "", ![t].keyType = ""]
  /\ UNCHANGED <<state, regMutex>>
  /\ UNCHANGED <<storeVars, request, callVars, handlerVars>>

\* ProviderRegistration.refresh up to the call of
\* updateProviderRegistrations: client.Registration.Register fails, or
\* answers with an account resource
register(t) ==
  /\ acme[t].pc = "register"
  /\ \/ acme' = [acme EXCEPT ![t].pc = "failed", ![t].err = TRUE, ![t].cause = "register"]
     \/ \E resource \in Resources :
          acme' = [acme EXCEPT ![t].pc = "lock", ![t].registration.Registration = resource]
  /\ UNCHANGED <<state, regMutex>>
  /\ UNCHANGED <<storeVars, request, callVars, handlerVars>>

\* mutant: the update does not take the mutex
updateLock_noMutex(t) ==
  /\ acme[t].pc = "lock"
  /\ acme' = [acme EXCEPT ![t].pc = "load"]
  /\ UNCHANGED <<state, regMutex>>
  /\ UNCHANGED <<storeVars, request, callVars, handlerVars>>

\* updateProviderRegistrations: providerRegistrationsFileMutex.Lock()
updateLock(t) ==
  /\ acme[t].pc = "lock"
  /\ regMutex = 0
  /\ regMutex' = t
  /\ acme' = [acme EXCEPT ![t].pc = "load"]
  /\ UNCHANGED state
  /\ UNCHANGED <<storeVars, request, callVars, handlerVars>>

\* mutant: the record is appended without looking for its key
updateLoad_alwaysAppends(t) ==
  /\ acme[t].pc = "load"
  /\ LET loaded == loadProviderRegistrations(state)
     IN IF loaded.err
          THEN acme' = [acme EXCEPT ![t].pc = "unlock", ![t].err = TRUE, ![t].cause = "load"]
          ELSE acme' = [acme EXCEPT ![t].pc = "write", ![t].loaded = loaded.val,
                          ![t].before = state[providerRegistrationsFile],
                          ![t].list = Append(loaded.val, acme[t].registration)]
  /\ UNCHANGED <<state, regMutex>>
  /\ UNCHANGED <<storeVars, request, callVars, handlerVars>>

\* updateProviderRegistrations: the load and the replacement or append
updateLoad(t) ==
  /\ acme[t].pc = "load"
  /\ LET loaded == loadProviderRegistrations(state)
     IN IF loaded.err
          THEN acme' = [acme EXCEPT ![t].pc = "unlock", ![t].err = TRUE, ![t].cause = "load"]
          ELSE acme' = [acme EXCEPT ![t].pc = "write", ![t].loaded = loaded.val,
                          ![t].before = state[providerRegistrationsFile],
                          ![t].list = updatedRegistrations(loaded.val, acme[t].registration)]
  /\ UNCHANGED <<state, regMutex>>
  /\ UNCHANGED <<storeVars, request, callVars, handlerVars>>

\* updateProviderRegistrations: json.MarshalIndent and state.Write through
\* the handler in use
stateWrite(t, handler) ==
  /\ acme[t].pc = "write"
  /\ \E w \in HandlerWrite(handler, state[providerRegistrationsFile], MarshalIndent(acme[t].list)) :
       /\ state' = [state EXCEPT ![providerRegistrationsFile] = w.data]
       /\ acme' = [acme EXCEPT ![t].pc = "unlock", ![t].wrote = TRUE,
                               ![t].err = w.err, ![t].persisted = ~w.err,
                               ![t].cause = IF w.err THEN "write" ELSE ""]
  /\ UNCHANGED regMutex
  /\ UNCHANGED <<storeVars, request, callVars, handlerVars>>

\* mutant: the order goes on whatever the update returned
updateUnlock_ignoresError(t) ==
  /\ acme[t].pc = "unlock"
  /\ regMutex' = IF regMutex = t THEN 0 ELSE regMutex
  /\ acme' = [acme EXCEPT ![t].pc = "obtain",
                          ![t].loaded = <<>>, ![t].list = <<>>, ![t].before = NoData]
  /\ UNCHANGED state
  /\ UNCHANGED <<storeVars, request, callVars, handlerVars>>

\* updateProviderRegistrations: the deferred Unlock; refresh returns the
\* error to ACMECertificateFactory.New, which aborts the order on an error
updateUnlock(t) ==
  /\ acme[t].pc = "unlock"
  /\ regMutex' = IF regMutex = t THEN 0 ELSE regMutex
  /\ acme' = [acme EXCEPT ![t].pc = IF acme[t].err THEN "failed" ELSE "obtain",
                          ![t].loaded = <<>>, ![t].list = <<>>, ![t].before = NoData]
  /\ UNCHANGED state
  /\ UNCHANGED <<storeVars, request, callVars, handlerVars>>

\* client.Certificate.Obtain: the order is submitted to the directory, and
\* ACMECertificateFactory.New returns
obtain(t) ==
  /\ acme[t].pc = "obtain"
  /\ acme' = [acme EXCEPT ![t] = NoOrder]
  /\ UNCHANGED <<state, regMutex>>
  /\ UNCHANGED <<storeVars, request, callVars, handlerVars>>

\* ACMECertificateFactory.New returns the error
orderReturn(t) ==
  /\ acme[t].pc = "failed"
  /\ acme' = [acme EXCEPT ![t] = NoOrder]
  /\ UNCHANGED <<state, regMutex>>
  /\ UNCHANGED <<storeVars, request, callVars, handlerVars>>

(***************************************************************************)
(* The evaluation of the ACME configuration (ACMECertificateFactory).      *)
(***************************************************************************)
\* the domain names of requests and the keys of the domains table:
\* "a", "a.", "b.a", "b.a."; ".", "a.", "b.a."
DomainA == <<97>>
DomainADot == <<97, 46>>
DomainBA == <<98, 46, 97>>
DomainBADot == <<98, 46, 97, 46>>
RequestDomains == {DomainA, DomainADot, DomainBA, DomainBADot}
ConfigDomains == {Dot, DomainADot, DomainBADot}

\* length of the list of domains of a request
MaxDomains == 2

DomainLists == UNION { [1..n -> RequestDomains] : n \in 0..MaxDomains }

\* the orders in which the range loop can visit the domains map of a config
\* (Load keeps the table in a Go map)
Orders(table) ==
  { o \in [1..Cardinality(table) -> table] : \A i, j \in 1..Cardinality(table) : o[i] = o[j] => i = j }

ConfigOrders == UNION { Orders(table) : table \in SUBSET ConfigDomains }

\* the loop of evalConfig over config.Domains, each iteration with a variable
\* of its own: sel is the selected entry so far (<<>> for nil)
RECURSIVE selectDomain(_, _, _, _)
selectDomain(domain, order, i, sel) ==
  IF i > Len(order) THEN sel
  ELSE IF HasSuffix(domain, order[i]) /\ (sel = <<>> \/ Len(sel) < Len(order[i]))
    THEN selectDomain(domain, order, i + 1, order[i])
    ELSE selectDomain(domain, order, i + 1, sel)

\* the same loop with one variable for all iterations (the language version
\* of the build, go 1.20): the pointer taken at the first match denotes the
\* loop variable, which holds the last entry visited when the loop ends
selectDomainShared(domain, order) ==
  IF \E i \in 1..Len(order) : HasSuffix(domain, order[i]) THEN order[Len(order)] ELSE <<>>

\* ACMECertificateFactory.evalConfig for a provider of the config: the
\* domain entry, or an error
evalConfig(domains, order, sharedLoopVar) ==
  IF Len(domains) = 0 THEN [err |-> "missing domain information", Domain |-> <<>>]
  ELSE LET domain == domains[1] \o Dot
           domainConfig == IF sharedLoopVar THEN selectDomainShared(domain, order)
                                            ELSE selectDomain(domain, order, 1, <<>>)
       IN IF domainConfig = <<>>
            THEN [err |-> "missing Domain configuration", Domain |-> <<>>]
            ELSE [err |-> "", Domain |-> domainConfig]

\* a call of evalConfig
evalConfigCall(domains, order, sharedLoopVar) ==
  /\ call' = [fn |-> "evalConfig",
              in |-> [domains |-> domains, order |-> order],
              out |-> evalConfig(domains, order, sharedLoopVar)]
  /\ UNCHANGED <<storeVars, request, registryVars, handlerVars, secretVars, lockVars>>

(***************************************************************************)
(* The package state: Write, Read and UpdateHandler.                       *)
(***************************************************************************)
\* state.Write up to the call of the handler: stateMutex.Lock()
state_Write(t, path, data) ==
  /\ stateOp[t].pc = "idle"
  /\ stateMutex.writer = 0 /\ stateMutex.readers = {}
  /\ stateMutex' = [stateMutex EXCEPT !.writer = t]
  /\ stateOp' = [stateOp EXCEPT ![t] = [NoStateOp EXCEPT !.pc = "call", !.fn = "Write",
                                                        !.path = path, !.data = data]]
  /\ UNCHANGED <<stateHandler, store, files>>
  /\ UNCHANGED <<storeVars, request, registryVars, callVars>>

\* state.Read up to the call of the handler: stateMutex.RLock()
state_Read(t, path) ==
  /\ stateOp[t].pc = "idle"
  /\ stateMutex.writer = 0
  /\ stateMutex' = [stateMutex EXCEPT !.readers = @ \cup {t}]
  /\ stateOp' = [stateOp EXCEPT ![t] = [NoStateOp EXCEPT !.pc = "call", !.fn = "Read",
                                                        !.path = path]]
  /\ UNCHANGED <<stateHandler, store, files>>
  /\ UNCHANGED <<storeVars, request, registryVars, callVars>>

\* defaultHandler.Write: the slice is put into the map
defaultHandler_Write(t) ==
  /\ store' = [store EXCEPT ![stateOp[t].path] = [data |-> stateOp[t].data, wrote |-> TRUE]]
  /\ stateOp' = [stateOp EXCEPT ![t].pc = "unlock", ![t].handler = stateHandler]
  /\ UNCHANGED files

\* defaultHandler.Read: os.ErrNotExist if the slice of the map is nil
defaultHandler_Read(t) ==
  /\ stateOp' = [stateOp EXCEPT ![t].pc = "unlock", ![t].handler = stateHandler,
                   ![t].err = IF ~store[stateOp[t].path].data.written THEN "ErrNotExist" ELSE "",
                   ![t].out = store[stateOp[t].path].data]
  /\ UNCHANGED <<store, files>>

\* fsHandler.Write: fullPath, then MkdirAll and os.WriteFile
fsHandler_Write(t) ==
  LET full == fullPath(stateHandler.basePath, stateOp[t].path)
  IN /\ IF full.err
          THEN /\ stateOp' = [stateOp EXCEPT ![t].pc = "unlock", ![t].handler = stateHandler,
                                             ![t].err = "illegal path"]
               /\ UNCHANGED files
          ELSE \E w \in fsHandlerWrite(files[full.fullPath], stateOp[t].data) :
                 /\ files' = [files EXCEPT ![full.fullPath] = w.data]
                 /\ stateOp' = [stateOp EXCEPT ![t].pc = "unlock", ![t].handler = stateHandler,
                                  ![t].file = full.fullPath,
                                  ![t].err = IF w.err THEN "write" ELSE ""]
     /\ UNCHANGED store

\* fsHandler.Read: fullPath, then os.ReadFile
fsHandler_Read(t) ==
  LET full == fullPath(stateHandler.basePath, stateOp[t].path)
  IN /\ IF full.err
          THEN stateOp' = [stateOp EXCEPT ![t].pc = "unlock", ![t].handler = stateHandler,
                                          ![t].err = "illegal path"]
          ELSE stateOp' = [stateOp EXCEPT ![t].pc = "unlock", ![t].handler = stateHandler,
                             ![t].file = full.fullPath,
                             ![t].err = IF ~files[full.fullPath].written THEN "ErrNotExist" ELSE "",
                             ![t].out = files[full.fullPath]]
     /\ UNCHANGED <<store, files>>

\* stateHandler.Write(path, data) resp. stateHandler.Read(path): the call
\* through the variable stateHandler as it is at that moment
handlerCall(t) ==
  /\ stateOp[t].pc = "call"
  /\ IF stateOp[t].fn = "Write"
       THEN IF stateHandler.kind = "fs" THEN fsHandler_Write(t) ELSE defaultHandler_Write(t)
       ELSE IF stateHandler.kind = "fs" THEN fsHandler_Read(t) ELSE defaultHandler_Read(t)
  /\ UNCHANGED <<stateHandler, stateMutex>>
  /\ UNCHANGED <<storeVars, request, registryVars, callVars>>

\* the deferred stateMutex.Unlock() resp. RUnlock(), and the return
stateReturn(t) ==
  /\ stateOp[t].pc = "unlock"
  /\ stateMutex' = IF stateOp[t].fn = "Write"
                     THEN [stateMutex EXCEPT !.writer = 0]
                     ELSE [stateMutex EXCEPT !.readers = @ \ {t}]
  /\ stateOp' = [stateOp EXCEPT ![t] = NoStateOp]
  /\ UNCHANGED <<stateHandler, store, files>>
  /\ UNCHANGED <<storeVars, request, registryVars, callVars>>

\* state.UpdateHandler: the assignment of the variable, without the mutex
UpdateHandler(handler) ==
  /\ stateHandler' = handler
  /\ UNCHANGED <<stateMutex, stateOp, store, files>>
  /\ UNCHANGED <<storeVars, request, registryVars, callVars>>

(***************************************************************************)
(* Specifications.                                                         *)
(***************************************************************************)
\* the steps of a create, for requests naming one of names
CreateStep(names, certs) ==
  \/ \E t \in Threads, name \in names : CreateCertificate(t, name)
  \/ \E t \in Threads, name \in names : CreateCertificateRequest(t, name)
  \/ \E t \in Threads : fileGroupCreate(t)
  \/ \E t \in Threads : factoryNew(t, certs)
  \/ \E t \in Threads : writeKey(t)
  \/ \E t \in Threads : writeArtifact(t)
  \/ \E t \in Threads : writeAttributes(t)
  \/ \E t \in Threads : commit(t)
  \/ \E t \in Threads : fileGroupClose(t)
  \/ \E t \in Threads : Unlock(t) /\ UNCHANGED request

\* Spec: creates, lookups and has* predicates on a store directory that
\* holds a certificate entry "a" without a key, or nothing
CoreUnits ==
  { {FilePath(NameA, crtExtension), FilePath(NameA, attributesExtension)} }

CoreNames == {NameA, NameAD}

Init == InitWith(CoreUnits)

Next ==
  \/ scan
  \/ newFSStore
  \/ CreateStep(CoreNames, {1})
  \/ \E name \in CoreNames : Entry(name)
  \/ HasKey
  \/ HasCertificate
  \/ HasCertificateRequest
  \/ HasRevocationList
  \/ Key

Spec == Init /\ [][Next]_vars

\* SpecRelease: creates of "a" and "a.d" that go on until they return, on a
\* store directory that holds a certificate entry "a" without a key, or
\* nothing.  A create that has begun is a running function call: each of its
\* steps is taken eventually.
CreateProgress(t) ==
  \/ fileGroupCreate(t)
  \/ factoryNew(t, {1})
  \/ writeKey(t)
  \/ writeArtifact(t)
  \/ writeAttributes(t)
  \/ commit(t)
  \/ fileGroupClose(t)
  \/ Unlock(t) /\ UNCHANGED request

NextRelease ==
  \/ scan
  \/ CreateStep(CoreNames, {1})

SpecRelease ==
  Init /\ [][NextRelease]_vars /\ \A t \in Threads : WF_vars(CreateProgress(t))

\* SpecScan: opening store directories of every shape
InitScan == InitWith(InitUnits)

NextScan == scan \/ newFSStore

SpecScan == InitScan /\ [][NextScan]_vars

\* SpecCursor: creates of "a" and cursors on a store directory holding some
\* of the entries "a.d", "b", "c"
CursorUnits ==
  { u \in InitUnits : \E n \in {NameAD, NameB, NameC} :
        FilePath(n, attributesExtension) \in u }

InitCursor == InitWith(CursorUnits)

NextCursor ==
  \/ scan
  \/ CreateStep({NameA}, {1})
  \/ Entries
  \/ EntriesNext
  \/ Reset

SpecCursor == InitCursor /\ [][NextCursor]_vars

\* SpecCache: creates of "a.d" and artifact reads on a store directory
\* holding some of the certificate entries "a" and "a-b"
CacheUnits ==
  CoreUnits \cup { u \in InitUnits : FilePath(NameAB, crtExtension) \in u }

CacheNames == {NameA, NameAD, NameAB}

InitCache == InitWith(CacheUnits)

NextCache ==
  \/ scan
  \/ CreateStep({NameAD}, Certs)
  \/ \E name \in CacheNames : Entry(name)
  \/ EntryCertificate
  \/ EntryCertificateRequest
  \/ EntryAttributes

SpecCache == InitCache /\ [][NextCache]_vars

\* SpecCrash: creates of "a", cursors and attribute reads on a store that
\* starts empty, with processes that end, or are terminated, and restart
InitCrash == InitWith({})

NextCrash ==
  \/ scan
  \/ newFSStore
  \/ processKilled
  \/ CreateStep({NameA}, {1})
  \/ Entries
  \/ EntriesNext
  \/ Entry(NameA)
  \/ EntryAttributes

SpecCrash == InitCrash /\ [][NextCrash]_vars

\* SpecNames: creates with names that are no entry names, on a store
\* directory that is empty or holds the sub-directory "s"
InitNames == InitWith({ {SubDir} })

NextNames ==
  \/ scan
  \/ \E t \in Threads, name \in InvalidNames : CreateCertificate(t, name)
  \/ \E t \in Threads : fileGroupCreate(t)
  \/ \E t \in Threads : factoryNew(t, {1})
  \/ \E t \in Threads : writeKey(t)
  \/ \E t \in Threads : writeArtifact(t)
  \/ \E t \in Threads : writeAttributes(t)
  \/ \E t \in Threads : commit(t)
  \/ \E t \in Threads : fileGroupClose(t)
  \/ \E t \in Threads : Unlock(t) /\ UNCHANGED request

SpecNames == InitNames /\ [][NextNames]_vars

\* SpecServer: generate requests of every shape on a store directory
\* holding some of the files of the issuer entry "a"
ServerUnits == CoreUnits \cup { {FilePath(NameA, keyExtension)} }

InitServer == InitWith(ServerUnits)

NextServer ==
  \/ scan
  \/ \E t \in Threads, body \in Bodies : storeLocalGenerate(t, body)
  \/ \E t \in Threads, body \in Bodies : storeRemoteGenerate(t, body)
  \/ \E t \in Threads, body \in Bodies : storeACMEGenerate(t, body)
  \/ \E t \in Threads : storeCreate(t)
  \/ \E t \in Threads : fileGroupCreate(t)
  \/ \E t \in Threads : factoryNew(t, {1})
  \/ \E t \in Threads : writeKey(t)
  \/ \E t \in Threads : writeArtifact(t)
  \/ \E t \in Threads : writeAttributes(t)
  \/ \E t \in Threads : commit(t)
  \/ \E t \in Threads : fileGroupClose(t)
  \/ \E t \in Threads : storeGenerateReturn(t)

SpecServer == InitServer /\ [][NextServer]_vars

\* SpecIssuer: local generate requests for "a.d" without issuer and under
\* the issuers "a" and "a.d", and remote generate requests for "a.d", on a
\* store directory holding some of the files of "a"
IssuerBodies ==
  { GoodBody, [GoodBody EXCEPT !.issuer = NameA], [GoodBody EXCEPT !.issuer = NameAD] }

NextIssuer ==
  \/ scan
  \/ \E t \in Threads, body \in IssuerBodies : storeLocalGenerate(t, body)
  \/ \E t \in Threads : storeRemoteGenerate(t, GoodBody)
  \/ \E t \in Threads : storeCreate(t)
  \/ \E t \in Threads : fileGroupCreate(t)
  \/ \E t \in Threads : factoryNew(t, {1})
  \/ \E t \in Threads : writeKey(t)
  \/ \E t \in Threads : writeArtifact(t)
  \/ \E t \in Threads : writeAttributes(t)
  \/ \E t \in Threads : commit(t)
  \/ \E t \in Threads : fileGroupClose(t)
  \/ \E t \in Threads : storeGenerateReturn(t)

SpecIssuer == InitServer /\ [][NextIssuer]_vars

\* SpecOrder: certificate creates of "a" and "c", lookups and cursors on a
\* store directory holding some of the entries "a.d" and "b"
OrderUnits ==
  { u \in InitUnits : \E n \in {NameAD, NameB} : FilePath(n, attributesExtension) \in u }

OrderNames == {NameA, NameC}

InitOrder == InitWith(OrderUnits)

NextOrder ==
  \/ scan
  \/ \E t \in Threads, name \in OrderNames : CreateCertificate(t, name)
  \/ \E t \in Threads : fileGroupCreate(t)
  \/ \E t \in Threads : factoryNew(t, {1})
  \/ \E t \in Threads : writeKey(t)
  \/ \E t \in Threads : writeArtifact(t)
  \/ \E t \in Threads : writeAttributes(t)
  \/ \E t \in Threads : commit(t)
  \/ \E t \in Threads : fileGroupClose(t)
  \/ \E t \in Threads : Unlock(t) /\ UNCHANGED request
  \/ \E name \in OrderNames : Entry(name)
  \/ Entries
  \/ EntriesNext
  \/ Reset

SpecOrder == InitOrder /\ [][NextOrder]_vars

\* SpecLookup: lookups and has* predicates on store directories holding
\* any of the files of "a", and the entry "b" or not
LookupUnits ==
  { u \in InitUnits : \E n \in {NameA, NameB}, e \in Extensions : FilePath(n, e) \in u }

LookupNames == {NameA, NameB}

InitLookup == InitWith(LookupUnits)

NextLookup ==
  \/ scan
  \/ \E name \in LookupNames : Entry(name)
  \/ HasKey
  \/ HasCertificate
  \/ HasCertificateRequest
  \/ HasRevocationList

SpecLookup == InitLookup /\ [][NextLookup]_vars

\* the steps of ACME orders persisting through the given state handler
OrderStep(handler) ==
  \/ \E t \in Threads, provider \in Providers : getRegistration(t, provider)
  \/ \E t \in Threads, keyFactory \in FactoryNames : newClient(t, keyFactory)
  \/ \E t \in Threads : isValid(t)
  \/ \E t \in Threads : register(t)
  \/ \E t \in Threads : updateLock(t)
  \/ \E t \in Threads : updateLoad(t)
  \/ \E t \in Threads : stateWrite(t, handler)
  \/ \E t \in Threads : updateUnlock(t)
  \/ \E t \in Threads : obtain(t)
  \/ \E t \in Threads : orderReturn(t)

\* the registrations an earlier process has persisted: none, or the record
\* of provider "p" and email "e1" with a key of that process
InitRegistrations ==
  { NoData,
    MarshalIndent(<<ProviderRegistration("p", "e1", MaxThreads + 1, 1)>>) }

\* SpecRegistry: ACME orders with the in-memory state handler
InitRegistry ==
  /\ InitStore({})
  /\ \E data \in InitRegistrations : InitRegistryWith(data)
  /\ InitStateWith(defaultHandler)

NextRegistry == OrderStep("memory")

SpecRegistry == InitRegistry /\ [][NextRegistry]_vars

\* SpecRegistryFs: ACME orders with the file system state handler
NextRegistryFs == OrderStep("fs")

SpecRegistryFs == InitRegistry /\ [][NextRegistryFs]_vars

\* SpecUpdate: ACME orders with the file system state handler, on a state
\* directory without registrations file or with a directory in its place
InitUpdate ==
  /\ InitStore({})
  /\ \E data \in {NoData, Directory} : InitRegistryWith(data)
  /\ InitStateWith(defaultHandler)

\* the environment puts a directory in the place of the registrations file
registrationsFileReplaced ==
  /\ state[providerRegistrationsFile] # Directory
  /\ state' = [state EXCEPT ![providerRegistrationsFile] = Directory]
  /\ UNCHANGED <<regMutex, acme>>
  /\ UNCHANGED <<storeVars, request, callVars, handlerVars>>

NextUpdate ==
  \/ OrderStep("fs")
  \/ registrationsFileReplaced

SpecUpdate == InitUpdate /\ [][NextUpdate]_vars

(***************************************************************************)
(* security.Secret: the obfuscated store secret.  wrapper is the Secret     *)
(* object, heap the buffers UnwrapBytes has returned and the caller still   *)
(* holds, unwrapped the bytes of the string given to Wrap (not part of the object).          *)
(***************************************************************************)
MaxSecretLen == 2
MaxBuffers == 2

\* the bytes of the secrets of the model and the bytes rand.Reader delivers
SecretBytes == {1, 254}
PadBytes == {0, 1, 255}

SeqsUpTo(S, n) == UNION { [1..k -> S] : k \in 0..n }

SecretStrings == SeqsUpTo(SecretBytes, MaxSecretLen)

\* x ^ y on bytes
RECURSIVE XorBits(_, _, _)
XorBits(x, y, bits) ==
  IF bits = 0 THEN 0
  ELSE ((x + y) % 2) + 2 * XorBits(x \div 2, y \div 2, bits - 1)

Xor(x, y) == XorBits(x, y, 8)

\* mutant: the pad is added to the secret
Wrap_add(str, key) ==
  [allocated |-> TRUE, key |-> key,
   wrapped |-> [i \in 1..Len(str) |-> (str[i] + key[i]) % 256]]

\* Wrap: key is what io.ReadFull(rand.Reader, s.key) has filled in
Wrap(str, key) ==
  [allocated |-> TRUE, key |-> key,
   wrapped |-> [i \in 1..Len(str) |-> Xor(str[i], key[i])]]

\* UnwrapBytes: the content of the buffer it makes
UnwrapBytes(s) == [i \in 1..Len(s.wrapped) |-> Xor(s.wrapped[i], s.key[i])]

\* a call of Wrap; the read of the random bytes may fail
security_Wrap(str) ==
  /\ \/ \E key \in [1..Len(str) -> PadBytes] :
          /\ wrapper' = Wrap(str, key)
          /\ call' = [fn |-> "Wrap", in |-> str, out |-> ""]
     \/ /\ wrapper' = NoSecret
        /\ call' = [fn |-> "Wrap", in |-> str, out |-> "failed to generate key"]
  /\ unwrapped' = str
  /\ UNCHANGED heap
  /\ UNCHANGED <<storeVars, request, registryVars, handlerVars, lockVars>>

\* mutant: the buffer of the first call is returned again
security_UnwrapBytes_shared ==
  /\ wrapper.allocated
  /\ Len(heap) < MaxBuffers
  /\ heap' = IF heap = <<>> THEN <<UnwrapBytes(wrapper)>> ELSE heap
  /\ call' = [fn |-> "UnwrapBytes", in |-> <<>>, out |-> 1]
  /\ UNCHANGED <<wrapper, unwrapped>>
  /\ UNCHANGED <<storeVars, request, registryVars, handlerVars, lockVars>>

\* a call of UnwrapBytes (Unwrap is the string of its result): out is the
\* buffer returned
security_UnwrapBytes ==
  /\ wrapper.allocated
  /\ Len(heap) < MaxBuffers
  /\ heap' = Append(heap, UnwrapBytes(wrapper))
  /\ call' = [fn |-> "UnwrapBytes", in |-> <<>>, out |-> Len(heap) + 1]
  /\ UNCHANGED <<wrapper, unwrapped>>
  /\ UNCHANGED <<storeVars, request, registryVars, handlerVars, lockVars>>

\* the caller overwrites a buffer it has got with zeroes
bufferClear(b) ==
  /\ b \in 1..Len(heap)
  /\ heap' = [heap EXCEPT ![b] = [i \in 1..Len(heap[b]) |-> 0]]
  /\ call' = [fn |-> "clear", in |-> b, out |-> <<>>]
  /\ UNCHANGED <<wrapper, unwrapped>>
  /\ UNCHANGED <<storeVars, request, registryVars, handlerVars, lockVars>>

\* the caller drops the buffers it has got
bufferRelease ==
  /\ heap # <<>>
  /\ heap' = <<>>
  /\ call' = [fn |-> "release", in |-> <<>>, out |-> <<>>]
  /\ UNCHANGED <<wrapper, unwrapped>>
  /\ UNCHANGED <<storeVars, request, registryVars, handlerVars, lockVars>>

\* SpecSecret: calls of Wrap and UnwrapBytes by a caller that clears and
\* drops the buffers it gets
NextSecret ==
  \/ \E str \in SecretStrings : security_Wrap(str)
  \/ security_UnwrapBytes
  \/ \E b \in 1..MaxBuffers : bufferClear(b)
  \/ bufferRelease

SpecSecret == InitWith({}) /\ [][NextSecret]_vars

(***************************************************************************)
(* The locking of the goroutines.  goroutine[t] is the call stack of        *)
(* goroutine t: frames [fn, at], the last being the running function and    *)
(* at the statement it is at; Program(fn) lists the statements of fn that   *)
(* lock, unlock, call a function that locks, or decide which comes next     *)
(* (a "step" goes on with any statement of to; Len + 1 is the return).      *)
(* The deferred unlocks stand where they run, at the return.                *)
(***************************************************************************)
Lock(m) == [op |-> "Lock", mutex |-> m]
RLock(m) == [op |-> "RLock", mutex |-> m]
UnlockOf(m) == [op |-> "Unlock", mutex |-> m]
RUnlock(m) == [op |-> "RUnlock", mutex |-> m]
CallOf(fn) == [op |-> "call", fn |-> fn]
StepTo(to) == [op |-> "step", to |-> to]

\* mutant: getRegistration persists the record it has made, calling
\* updateProviderRegistrations before its deferred RUnlock
Program_getUpdates(fn) ==
  CASE fn = "CreateCertificate" ->
         << Lock("store"), StepTo({3, 5}), CallOf("ACMECertificateFactory.New"),
            StepTo({5}), UnlockOf("store") >>
    [] fn = "CreateCertificateRequest" ->
         << Lock("store"), StepTo({3}), UnlockOf("store") >>
    [] fn = "Entry" ->
         << RLock("store"), StepTo({3}), RUnlock("store") >>
    [] fn = "ACMECertificateFactory.New" ->
         << StepTo({2, 7}), CallOf("getRegistration"), StepTo({4, 6, 7}),
            CallOf("updateProviderRegistrations"), StepTo({6, 7}), StepTo({7}) >>
    [] fn = "getRegistration" ->
         << RLock("registry"), CallOf("loadProviderRegistrations"), StepTo({4, 5}),
            CallOf("updateProviderRegistrations"), RUnlock("registry") >>
    [] fn = "updateProviderRegistrations" ->
         << Lock("registry"), CallOf("loadProviderRegistrations"), StepTo({4, 5}),
            CallOf("state.Write"), UnlockOf("registry") >>
    [] fn = "loadProviderRegistrations" ->
         << CallOf("state.Read"), StepTo({3}) >>
    [] fn = "state.Read" ->
         << RLock("state"), StepTo({3}), RUnlock("state") >>
    [] fn = "state.Write" ->
         << Lock("state"), StepTo({3}), UnlockOf("state") >>

\* CreateCertificate with an ACME factory (Lock; the three files.create,
\* an error returns; factory.New(); the writes and the commit, or the error
\* return; the deferred Unlock), CreateCertificateRequest and
\* CreateCertificate with a factory that takes no lock, Entry and Entries,
\* ACMECertificateFactory.New (evalConfig; getRegistration; key type, client
\* and isValid; refresh; the order), getRegistration,
\* updateProviderRegistrations, loadProviderRegistrations, state.Read,
\* state.Write
Program(fn) ==
  CASE fn = "CreateCertificate" ->
         << Lock("store"), StepTo({3, 5}), CallOf("ACMECertificateFactory.New"),
            StepTo({5}), UnlockOf("store") >>
    [] fn = "CreateCertificateRequest" ->
         << Lock("store"), StepTo({3}), UnlockOf("store") >>
    [] fn = "Entry" ->
         << RLock("store"), StepTo({3}), RUnlock("store") >>
    [] fn = "ACMECertificateFactory.New" ->
         << StepTo({2, 7}), CallOf("getRegistration"), StepTo({4, 6, 7}),
            CallOf("updateProviderRegistrations"), StepTo({6, 7}), StepTo({7}) >>
    [] fn = "getRegistration" ->
         << RLock("registry"), CallOf("loadProviderRegistrations"), StepTo({4}),
            RUnlock("registry") >>
    [] fn = "updateProviderRegistrations" ->
         << Lock("registry"), CallOf("loadProviderRegistrations"), StepTo({4, 5}),
            CallOf("state.Write"), UnlockOf("registry") >>
    [] fn = "loadProviderRegistrations" ->
         << CallOf("state.Read"), StepTo({3}) >>
    [] fn = "state.Read" ->
         << RLock("state"), StepTo({3}), RUnlock("state") >>
    [] fn = "state.Write" ->
         << Lock("state"), StepTo({3}), UnlockOf("state") >>

\* the functions goroutines are started with: the creates and reads of the
\* store, orders and registry calls outside a create, state reads and writes
EntryPoints ==
  { "CreateCertificate", "CreateCertificateRequest", "Entry",
    "ACMECertificateFactory.New", "getRegistration", "updateProviderRegistrations",
    "state.Read", "state.Write" }

\* the running frame of goroutine t, and its statement (a return at the end)
Top(t) == goroutine[t][Len(goroutine[t])]

Statement(t) ==
  IF goroutine[t] = <<>> THEN [op |-> "idle"]
  ELSE IF Top(t).at > Len(Program(Top(t).fn)) THEN [op |-> "return"]
  ELSE Program(Top(t).fn)[Top(t).at]

\* the stack of t with the running frame at statement at
Goto(t, at) == [goroutine[t] EXCEPT ![Len(goroutine[t])].at = at]

lockFrame == UNCHANGED <<storeVars, request, registryVars, handlerVars, call, secretVars>>

\* go fn(...)
goStart(t, fn) ==
  /\ goroutine[t] = <<>>
  /\ goroutine' = [goroutine EXCEPT ![t] = << [fn |-> fn, at |-> 1] >>]
  /\ UNCHANGED mutexes
  /\ lockFrame

\* RWMutex.Lock, first part: the writer is announced, which keeps new
\* readers out
rwLockPending(t) ==
  /\ Statement(t).op = "Lock"
  /\ t \notin mutexes[Statement(t).mutex].pending
  /\ mutexes' = [mutexes EXCEPT ![Statement(t).mutex].pending = @ \cup {t}]
  /\ UNCHANGED goroutine
  /\ lockFrame

\* RWMutex.Lock, second part: the writer goes on when no reader and no
\* writer holds the mutex
rwLock(t) ==
  /\ Statement(t).op = "Lock"
  /\ t \in mutexes[Statement(t).mutex].pending
  /\ mutexes[Statement(t).mutex].writer = 0
  /\ mutexes[Statement(t).mutex].readers = {}
  /\ mutexes' = [mutexes EXCEPT ![Statement(t).mutex].pending = @ \ {t},
                                ![Statement(t).mutex].writer = t]
  /\ goroutine' = [goroutine EXCEPT ![t] = Goto(t, Top(t).at + 1)]
  /\ lockFrame

\* RWMutex.RLock: the reader goes on when no writer holds the mutex or waits
\* for it
rwRLock(t) ==
  /\ Statement(t).op = "RLock"
  /\ mutexes[Statement(t).mutex].writer = 0
  /\ mutexes[Statement(t).mutex].pending = {}
  /\ mutexes' = [mutexes EXCEPT ![Statement(t).mutex].readers = @ \cup {t}]
  /\ goroutine' = [goroutine EXCEPT ![t] = Goto(t, Top(t).at + 1)]
  /\ lockFrame

\* RWMutex.Unlock
rwUnlock(t) ==
  /\ Statement(t).op = "Unlock"
  /\ mutexes' = [mutexes EXCEPT ![Statement(t).mutex].writer =
                   IF @ = t THEN 0 ELSE @]
  /\ goroutine' = [goroutine EXCEPT ![t] = Goto(t, Top(t).at + 1)]
  /\ lockFrame

\* RWMutex.RUnlock
rwRUnlock(t) ==
  /\ Statement(t).op = "RUnlock"
  /\ mutexes' = [mutexes EXCEPT ![Statement(t).mutex].readers = @ \ {t}]
  /\ goroutine' = [goroutine EXCEPT ![t] = Goto(t, Top(t).at + 1)]
  /\ lockFrame

\* a call of a function that locks
goCall(t) ==
  /\ Statement(t).op = "call"
  /\ goroutine' = [goroutine EXCEPT ![t] =
       Append(Goto(t, Top(t).at + 1), [fn |-> Statement(t).fn, at |-> 1])]
  /\ UNCHANGED mutexes
  /\ lockFrame

\* the statements between: they end with the next statement or, on an
\* error, with the return
goStep(t) ==
  /\ Statement(t).op = "step"
  /\ \E at \in Statement(t).to : goroutine' = [goroutine EXCEPT ![t] = Goto(t, at)]
  /\ UNCHANGED mutexes
  /\ lockFrame

\* the return to the caller
goReturn(t) ==
  /\ Statement(t).op = "return"
  /\ goroutine' = [goroutine EXCEPT ![t] = SubSeq(goroutine[t], 1, Len(goroutine[t]) - 1)]
  /\ UNCHANGED mutexes
  /\ lockFrame

\* a statement of a running goroutine
Running(t) ==
  \/ rwLockPending(t)
  \/ rwLock(t)
  \/ rwRLock(t)
  \/ rwUnlock(t)
  \/ rwRUnlock(t)
  \/ goCall(t)
  \/ goStep(t)
  \/ goReturn(t)

\* SpecLocks: goroutines running the functions that lock
NextLocks ==
  \/ \E t \in Threads, fn \in EntryPoints : goStart(t, fn)
  \/ \E t \in Threads : rwLockPending(t)
  \/ \E t \in Threads : rwLock(t)
  \/ \E t \in Threads : rwRLock(t)
  \/ \E t \in Threads : rwUnlock(t)
  \/ \E t \in Threads : rwRUnlock(t)
  \/ \E t \in Threads : goCall(t)
  \/ \E t \in Threads : goStep(t)
  \/ \E t \in Threads : goReturn(t)

SpecLocks == InitWith({}) /\ [][NextLocks]_vars

\* SpecCalls: calls of the functions of the issuance pipeline
InitCalls == InitWith({})

NextCalls ==
  \/ \E domains \in DomainLists, order \in ConfigOrders, sharedLoopVar \in BOOLEAN :
       evalConfigCall(domains, order, sharedLoopVar)
  \/ \E name \in KeyTypeNames : getKeyFactoryCall(name)
  \/ \E name \in KeyTypeNames : StandardKeyCall(name)

SpecCalls == InitCalls /\ [][NextCalls]_vars

\* the data of calls: nil, the document of no record, the document of one
StateData ==
  { NoData, MarshalIndent(<<>>), MarshalIndent(<<ProviderRegistration("p", "e1", 1, 1)>>) }

\* SpecStateFs: calls of one goroutine with the handler of the state
\* directory in use
InitStateFs ==
  InitStore({}) /\ InitRegistryWith(NoData) /\ InitStateWith(NewFSHandler(RootDir))

NextStateFs ==
  \/ \E path \in StatePaths, data \in StateData : state_Write(1, path, data)
  \/ \E path \in StatePaths : state_Read(1, path)
  \/ handlerCall(1)
  \/ stateReturn(1)

SpecStateFs == InitStateFs /\ [][NextStateFs]_vars

\* SpecStateMemory: calls of one goroutine with the in-memory handler
NextStateMemory ==
  \/ \E path \in {PathF, PathAbs}, data \in StateData : state_Write(1, path, data)
  \/ \E path \in {PathF, PathAbs} : state_Read(1, path)
  \/ handlerCall(1)
  \/ stateReturn(1)

SpecStateMemory == InitWith({}) /\ [][NextStateMemory]_vars

\* SpecStateLock: calls of all goroutines for one path, and replacements of
\* the handler
NextStateLock ==
  \/ \E t \in Threads, data \in StateData \ {NoData} : state_Write(t, PathF, data)
  \/ \E t \in Threads : state_Read(t, PathF)
  \/ \E t \in Threads : handlerCall(t)
  \/ \E t \in Threads : stateReturn(t)
  \/ \E handler \in {defaultHandler, NewFSHandler(RootDir)} : UpdateHandler(handler)

SpecStateLock == InitWith({}) /\ [][NextStateLock]_vars

\* SpecInit: Init and Open of a store directory that is missing, or exists
\* with usable settings, without settings or with settings that do not
\* parse; creates in the opened store; restarts of the process
InitNoDisk == [p \in Paths |-> Absent]

InitInit ==
  /\ \E dir \in {"absent", "dir"}, units \in SUBSET CoreUnits,
        settings \in {Settings(1), Absent, File(<<Garbage>>), DirNode} :
       InitStoreAt(IF dir = "absent" THEN InitNoDisk
                   ELSE [InitDisk(units) EXCEPT ![settingsFile] = settings], dir)
  /\ InitRegistryWith(NoData)
  /\ InitStateWith(defaultHandler)

NextInit ==
  \/ fsstore_Init
  \/ fsstore_Open
  \/ newFSStore
  \/ CreateStep({NameA}, {1})
  \/ Entries
  \/ EntriesNext

SpecInit == InitInit /\ [][NextInit]_vars

\* SpecInitFaults: as SpecInit, with Init calls that fail in one of their
\* steps
NextInitFaults ==
  \/ NextInit
  \/ fsstore_InitFailing

SpecInitFaults == InitInit /\ [][NextInitFaults]_vars

(***************************************************************************)
(* Properties.                                                             *)
(***************************************************************************)
Range(s) == {s[i] : i \in DOMAIN s}

\* the extensions e for which the file name+e exists
FilesOf(d, name) == {e \in Extensions : Exists(d, FilePath(name, e))}

\* thread t has run a create up to the point of returning (the deferred
\* close is done, the deferred unlock is next)
Returning(t) == op[t].pc = "unlock"

\* the three files a create of thread t targets
Targets(t) == {keyExtension, op[t].ext, attributesExtension}

C2_NoReaderDuringCreate == observed = "quiescent"

\* C3: a create for a name of which a target file exists fails, leaves the
\* index unchanged and leaves every file that existed before the call
\* unchanged in existence and content.
C3_CollisionLeavesStoreUnchanged ==
  \A t \in Threads :
    Returning(t) /\ (\E e \in Targets(t) : Exists(op[t].disk0, FilePath(op[t].name, e)))
      => /\ op[t].err
         /\ entries = op[t].entries0
         /\ \A p \in DOMAIN disk : Exists(op[t].disk0, p) => disk[p] = op[t].disk0[p]

\* a create collided on its second target after it had staged the key file
C3_Witness ==
  \E t \in Threads :
    /\ Returning(t) /\ op[t].err
    /\ ~Exists(op[t].disk0, FilePath(op[t].name, keyExtension))
    /\ Exists(op[t].disk0, FilePath(op[t].name, op[t].ext))

\* C4: for a name without files beforehand, a successful CreateCertificate
\* leaves exactly .key, .crt and .json, a successful CreateCertificateRequest
\* exactly .key, .csr and .json; the name is in the index and is listed by
\* the scan of a re-opened store.
C4_SuccessfulCreateLeavesEntry ==
  \A t \in Threads :
    Returning(t) /\ ~op[t].err /\ FilesOf(op[t].disk0, op[t].name) = {}
      => /\ FilesOf(disk, op[t].name) = Targets(t)
         /\ op[t].ext = crtExtension =>
              hasCertificate(disk, op[t].name) /\ ~hasCertificateRequest(disk, op[t].name)
         /\ op[t].ext = csrExtension =>
              /\ ~hasCertificate(disk, op[t].name)
              /\ hasCertificateRequest(disk, op[t].name)
              /\ hasKey(disk, op[t].name)
         /\ op[t].name \in Range(entries)
         /\ op[t].name \in Range(scanDisk(disk).entries)

\* a CreateCertificateRequest for a name without files has succeeded
C4_Witness ==
  \E t \in Threads :
    /\ Returning(t) /\ ~op[t].err /\ op[t].ext = csrExtension
    /\ FilesOf(op[t].disk0, op[t].name) = {}

\* C5: in every state of an opened store the index is in strictly ascending
\* name order.
C5_IndexStrictlyAscending ==
  opened => \A i \in 1..(Len(entries) - 1) : StrLess(entries[i], entries[i + 1])

\* the names that are listable by invariant V1
Listable(d) ==
  {n \in Names :
     /\ Exists(d, FilePath(n, attributesExtension))
     /\ \/ Exists(d, FilePath(n, crtExtension))
        \/ Exists(d, FilePath(n, keyExtension)) /\ Exists(d, FilePath(n, csrExtension))}

\* C6: after open the index contains every listable name exactly once, so a
\* traversal yields as many handles as there are valid entries on disk.
C6_IndexWithoutDuplicates ==
  opened /\ lock = 0
    => /\ \A i, j \in 1..Len(entries) : i # j => entries[i] # entries[j]
       /\ Len(entries) = Cardinality(Listable(disk))

\* the stems of all files of the model, inside the sub-directory or not
Stems == {TrimSuffix(p, Ext(p)) : p \in Paths}

\* C7: after open a name is in the index iff name.json exists and (name.crt
\* exists or both name.key and name.csr exist); other files, the .store
\* file and files inside sub-directories contribute no index entry.
C7_IndexIsListableNames ==
  opened =>
    \A n \in Stems \cup Range(entries) :
      n \in Range(entries)
        <=> /\ \A i \in 1..Len(n) : n[i] # 47
            /\ n # <<>>
            /\ Exists(disk, n \o attributesExtension)
            /\ \/ Exists(disk, n \o crtExtension)
               \/ Exists(disk, n \o keyExtension) /\ Exists(disk, n \o csrExtension)

\* a store was opened on a directory with a sub-directory holding entry
\* files, an admitted entry, and files "a.*" which do not make an entry
C7_Witness ==
  /\ opened
  /\ IsDir(disk, SubDir) /\ Exists(disk, SubJson)
  /\ NameC \in Range(entries)
  /\ FilesOf(disk, NameA) # {}
  /\ NameA \notin Range(entries)

\* C8: a cursor yields exactly the names the index held when the cursor was
\* created, in that order, whatever creates complete afterwards.
C8_CursorYieldsSnapshot ==
  cursor.live => CursorView(cursor, entries) = cursor.origin

\* name.json exists and is not a staged file of a create in progress, so
\* entry(name) has returned, or can return, a handle for name
IsEntry(name) ==
  /\ hasAttributes(disk, name)
  /\ \A t \in Threads : ~(op[t].name = name /\ op[t].release /\ op[t].pc # "idle")

\* what the file of an artifact decodes to
Decoded(d, name, ext) == readPem(d, <<>>, name, ext)

\* C9: a cache holds a value for a name only if the artifact file exists and
\* decodes to that value, so for an entry without certificate (request)
\* file the read of the certificate (request) returns absent.
C9_CacheHoldsOnlyDiskValues ==
  /\ \A ext \in {crtExtension, csrExtension} : \A i \in 1..Len(cache[ext]) :
       /\ Exists(disk, FilePath(cache[ext][i].key, ext))
       /\ Decoded(disk, cache[ext][i].key, ext).val = cache[ext][i].val
  /\ \A n \in Names :
       /\ IsEntry(n) /\ ~hasCertificate(disk, n)
            => readCertificate(disk, cache[crtExtension], n).val = Nil
       /\ IsEntry(n) /\ ~hasCertificateRequest(disk, n)
            => readCertificateRequest(disk, cache[csrExtension], n).val = Nil

\* what entry.Certificate() returns in the current state
CertificateOf(name) ==
  LET r == readCertificate(disk, cache[crtExtension], name)
  IN [err |-> r.err, val |-> r.val]

\* C10: for an entry with hasCertificate()=true the value certificate()
\* returns never changes: no step of the store changes it, whether it is
\* served from the cache, re-read after eviction or cached by the create.
C10_CertificateStable ==
  [][\A n \in Names :
       IsEntry(n) /\ hasCertificate(disk, n) /\ hasCertificate(disk', n)
         => CertificateOf(n)' = CertificateOf(n)]_vars

\* the certificate of the created entry "a.d" is on disk but not in the
\* cache, which is full of other entries: it was evicted, the next
\* certificate() re-reads the file
C10_Witness ==
  /\ IsEntry(NameAD) /\ hasCertificate(disk, NameAD)
  /\ lock = 0
  /\ ~CacheHas(cache[crtExtension], NameAD)
  /\ Len(cache[crtExtension]) = CacheCapacity
  /\ CacheHas(cache[attributesExtension], NameAD)

\* the names a traversal of the current cursor returns
CursorNames == IF cursor.live THEN Range(CursorView(cursor, entries)) ELSE {}

\* C11: for every name returned by entries(), entry(name) returns a handle
\* and attributes(name) succeeds.
C11_ListedNameHasAttributes ==
  opened =>
    \A n \in Range(entries) \cup CursorNames :
      /\ hasAttributes(disk, n)
      /\ ~readAttributes(disk, cache[attributesExtension], n).err

\* an entry name: not empty, no path separator, no leading dot, no embedded
\* extension sentinel
ValidName(name) ==
  /\ name # <<>>
  /\ name[1] # 46
  /\ \A i \in 1..Len(name) : name[i] # 47
  /\ \A e \in Extensions : \A i \in 1..Len(name) :
       ~(i + Len(e) - 1 <= Len(name) /\ SubSeq(name, i, i + Len(e) - 1) = e)

\* C12: every file a create creates lies directly in the store root, and a
\* create called with a name that is empty, starts with a dot, contains a
\* path separator or an extension sentinel is rejected, creates no file and
\* admits nothing to the index.
C12_InvalidNameRejected ==
  /\ \A p \in DOMAIN disk : Exists(disk, p) => DirOf(p) = <<>>
  /\ \A t \in Threads :
       Returning(t) /\ ~ValidName(op[t].name)
         => op[t].err /\ disk = op[t].disk0 /\ entries = op[t].entries0

\* C13: a generate request that fails validation (body not decodable, key
\* type unknown, DN not parsable, issuer not resolvable, ACME CA not
\* recognised) is answered with an error and the create of the store is
\* never invoked for it.
C13_InvalidRequestNeverCreates ==
  \A t \in Threads :
    /\ request[t].live => request[t].valid
    /\ op[t].pc # "idle" => request[t].valid
    /\ request[t].handler # "" /\ ~request[t].valid => request[t].status \in {400, 500}

\* two creates never overlap in time
CreatesTotallyOrdered == Cardinality({t \in Threads : op[t].pc # "idle"}) <= 1

\* entry(name) returns a handle for every name a create of this store has
\* committed (in SpecOrder: the names "a" and "c" in the index)
CreatedNamesFound ==
  \A n \in Range(entries) \cap OrderNames : hasAttributes(disk, n)

\* C14: a create that has returned success is reflected by every cursor
\* created afterwards and by entry(name) afterwards, and two creates on the
\* same store never overlap in time.
C14_CompletedCreatesVisible ==
  /\ CreatesTotallyOrdered
  /\ CreatedNamesFound
  /\ cursor.live =>
       \A n \in Range(cursor.origin) \cap OrderNames :
         n \in Range(CursorView(cursor, entries))

OtherRecords(list, provider, email) ==
  SelectSeq(list, LAMBDA r : ~SameKey(r, provider, email))

UniqueKeys(list) ==
  \A i, j \in 1..Len(list) :
    SameKey(list[i], list[j].Provider, list[j].Email) => i = j

\* C16: the persisted registrations hold at most one record per (provider,
\* email) at any time; when an update has written, the persisted list holds
\* exactly one record of the update's key, equal to the update's record: at
\* the position of the record it replaced, or at the end if there was none;
\* the records of other keys are as they were, in their order.
C16_UpdateKeepsKeysUnique ==
  /\ UniqueKeys(Records(state))
  /\ \A t \in Threads :
       (acme[t].pc = "unlock" /\ acme[t].persisted) =>
         LET r == acme[t].registration
             now == Records(state)
             was == acme[t].loaded
             i == updateIndex(was, r.Provider, r.Email)
         IN /\ Len(SelectSeq(now, LAMBDA x : SameKey(x, r.Provider, r.Email))) = 1
            /\ now = IF i > 0 THEN [was EXCEPT ![i] = r] ELSE Append(was, r)
            /\ OtherRecords(now, r.Provider, r.Email) = OtherRecords(was, r.Provider, r.Email)

\* an update has replaced the record another update had written for the same
\* key, next to a record of another key
C16_Witness ==
  \E t \in Threads :
    /\ acme[t].pc = "unlock"
    /\ acme[t].persisted
    /\ Len(acme[t].loaded) > 1
    /\ \E i \in 1..Len(acme[t].loaded) :
         /\ SameKey(acme[t].loaded[i], acme[t].registration.Provider, acme[t].registration.Email)
         /\ acme[t].loaded[i] # acme[t].registration
         /\ Records(state)[i] = acme[t].registration

\* C17: when the write of an update through the file system handler has
\* failed, the registrations file holds the complete new document or the
\* complete document it held before the update.
C17_FailedWriteKeepsDocument ==
  \A t \in Threads :
    (acme[t].pc = "unlock" /\ acme[t].cause = "write") =>
      \/ state[providerRegistrationsFile] = MarshalIndent(acme[t].list)
      \/ state[providerRegistrationsFile] = acme[t].before

\* the persisted record of (provider, email), if there is one
HasRecord(list, provider, email) == updateIndex(list, provider, email) > 0

\* C18: updates are linearizable.  Every change of the persisted
\* registrations is the replacement or append of the record of a goroutine
\* that is writing, applied to the list as it is persisted at that moment, so
\* that no record another update has written since is lost; no key ever
\* leaves the list; and a lookup that starts when a record of its key is
\* persisted returns that record.
C18_UpdatesLinearizable ==
  /\ [][state' # state =>
          \E t \in Threads :
            /\ acme[t].pc = "write"
            /\ Records(state') = updatedRegistrations(Records(state), acme[t].registration)]_vars
  /\ [][\A r \in Range(Records(state)) : HasRecord(Records(state'), r.Provider, r.Email)]_vars
  /\ [][\A t \in Threads :
          (acme[t].pc = "idle" /\ acme'[t].pc = "keyType") =>
            LET r == acme'[t].registration
                i == updateIndex(Records(state), r.Provider, r.Email)
            IN i > 0 => r = Records(state)[i]]_vars

\* two updates of different keys at a time: one has written and still holds
\* the mutex, the other waits for it
C18_Witness ==
  \E t, u \in Threads :
    /\ acme[t].pc = "unlock"
    /\ acme[t].persisted
    /\ regMutex = t
    /\ acme[u].pc = "lock"
    /\ ~SameKey(acme[u].registration, acme[t].registration.Provider, acme[t].registration.Email)
    /\ ~HasRecord(Records(state), acme[u].registration.Provider, acme[u].registration.Email)

\* C19: an order whose record had no registration, or a registration the
\* directory rejects, reaches the submission of the certificate order only
\* after its re-registered record has been written without error; the
\* record just written is the persisted record of its key; an order whose
\* registering failed is aborted and has not written.
C19_OrderAfterPersistedRegistration ==
  \A t \in Threads :
    /\ acme[t].pc = "obtain" =>
         \/ acme[t].valid
         \/ acme[t].persisted /\ acme[t].registration.Registration # 0
    /\ (acme[t].pc = "unlock" /\ acme[t].persisted) =>
         acme[t].registration \in Range(Records(state))
    /\ acme[t].cause = "register" => acme[t].pc = "failed" /\ ~acme[t].wrote

\* an order about to be submitted after its record was re-registered and
\* persisted
C19_Witness ==
  \E t \in Threads :
    /\ acme[t].pc = "obtain"
    /\ ~acme[t].valid
    /\ acme[t].persisted
    /\ acme[t].registration \in Range(Records(state))

\* C20: the lookup of a registration leaves the persisted registrations as
\* they are, whatever it returns.
C20_GetNeverWrites ==
  [][\A t \in Threads :
       (acme[t].pc = "idle" /\ acme'[t].pc # "idle") => state' = state]_vars

\* a lookup has returned a record with a key of its own and no registration,
\* and no record of its provider and email is persisted
C20_Witness ==
  \E t \in Threads :
    /\ acme[t].pc = "keyType"
    /\ acme[t].registration.Key = t
    /\ acme[t].registration.Registration = 0
    /\ ~HasRecord(Records(state), acme[t].registration.Provider, acme[t].registration.Email)
    /\ state[providerRegistrationsFile].written

\* the first requested domain, with a '.' appended if it does not end in one
PreparedName(domains) ==
  IF HasSuffix(domains[1], Dot) THEN domains[1] ELSE domains[1] \o Dot

SuffixEntries(domains, order) ==
  { d \in Range(order) : HasSuffix(PreparedName(domains), d) }

\* C21: evalConfig fails iff the list of domains is empty or no entry of the
\* domains table is a suffix of the prepared name; otherwise it selects the
\* longest entry that is a suffix of the prepared name.
C21_LongestSuffixSelected ==
  call.fn = "evalConfig" =>
    LET domains == call.in.domains
        order == call.in.order
    IN IF Len(domains) = 0 \/ SuffixEntries(domains, order) = {}
         THEN call.out.err # ""
         ELSE /\ call.out.err = ""
              /\ call.out.Domain \in SuffixEntries(domains, order)
              /\ \A d \in SuffixEntries(domains, order) : Len(d) <= Len(call.out.Domain)

\* C22: the factory getKeyFactory resolves for a key type name has that name
\* and is the registry's standard factory of that name; the registry's
\* lookup by the name of a standard factory returns a factory of that name.
C22_FactoryOfItsName ==
  /\ (call.fn = "getKeyFactory" /\ ~call.out.err) =>
       /\ FactoryName(call.out.factory) = call.in
       /\ call.out.factory = StandardKey(call.in)
  /\ (call.fn = "StandardKey" /\ \E i \in 1..Len(StandardKeys) : FactoryName(StandardKeys[i]) = call.in) =>
       FactoryName(call.out) = call.in

\* the key types of the directory for the names of factories
DirectoryKeyTypes ==
  { <<"ECDSA P-256", "EC256">>, <<"ECDSA P-384", "EC384">>, <<"RSA 2048", "RSA2048">>,
    <<"RSA 4096", "RSA4096">>, <<"RSA 8192", "RSA8192">> }

\* C23: an order goes on to the directory with the key type of its factory's
\* name, for the five names with a key type; for every other name the order
\* fails: it has written nothing, its record is as the lookup returned it,
\* and the step that fails leaves the persisted registrations as they are.
C23_KeyTypeOfFactoryName ==
  /\ [](\A t \in Threads :
          /\ acme[t].pc = "isValid" =>
               <<acme[t].keyFactory, acme[t].keyType>> \in DirectoryKeyTypes
          /\ acme[t].cause = "keyType" =>
               /\ acme[t].pc = "failed"
               /\ \A p \in DirectoryKeyTypes : p[1] # acme[t].keyFactory
               /\ ~acme[t].wrote /\ ~acme[t].persisted)
  /\ [][\A t \in Threads :
          (acme[t].pc = "keyType" /\ acme'[t].pc # "keyType") =>
            /\ state' = state
            /\ acme'[t].registration = acme[t].registration
            /\ acme'[t].pc \in {"isValid", "failed"}]_vars

\* an order with the factory getKeyFactory resolves for "RSA 4096" has
\* failed for its key type, with no registration
C23_Witness ==
  \E t \in Threads :
    /\ acme[t].pc = "failed"
    /\ acme[t].cause = "keyType"
    /\ acme[t].keyFactory = FactoryName(getKeyFactory("RSA 4096").factory)
    /\ acme[t].registration.Registration = 0

\* the location of path under basePath lies inside basePath, element by
\* element
Inside(basePath, path) ==
  LET base == Elements(basePath)
      full == Elements(basePath \o Separator \o path)
  IN Len(base) <= Len(full) /\ SubSeq(full, 1, Len(base)) = base

\* C24: a call of the handler of the state directory with an absolute path,
\* or with a path whose location lies outside the directory, fails and has
\* read or written no file; a file that was read or written lies inside the
\* directory.
C24_PathsInsideRoot ==
  \A t \in Threads :
    (stateOp[t].pc = "unlock" /\ stateOp[t].handler.kind = "fs") =>
      /\ (IsAbs(stateOp[t].path) \/ ~Inside(stateOp[t].handler.basePath, stateOp[t].path)) =>
           stateOp[t].err = "illegal path" /\ stateOp[t].file = <<>>
      /\ stateOp[t].file # <<>> =>
           HasPrefix(Elements(stateOp[t].file), Elements(stateOp[t].handler.basePath))

\* no Write of the package state is in progress together with another Write
\* or a Read
WritesExclusive ==
  \A t, u \in Threads :
    (t # u /\ stateOp[t].pc # "idle" /\ stateOp[t].fn = "Write") => stateOp[u].pc = "idle"

\* C25: the calls of the package state are serialized by stateMutex, and the
\* handler in use is replaced only while no Read or Write is in progress.
C25_HandlerReplacedAtomically ==
  /\ []WritesExclusive
  /\ [][stateHandler' # stateHandler => \A t \in Threads : stateOp[t].pc = "idle"]_vars

\* C26: a Read of the in-memory handler fails with os.ErrNotExist iff no
\* Write of its path has succeeded before; otherwise it returns the data of
\* the latest Write of that path.
C26_ReadReturnsLatestWrite ==
  \A t \in Threads :
    (stateOp[t].pc = "unlock" /\ stateOp[t].fn = "Read" /\ stateOp[t].handler.kind = "memory") =>
      /\ stateOp[t].err = "ErrNotExist" <=> ~store[stateOp[t].path].wrote
      /\ store[stateOp[t].path].wrote =>
           /\ stateOp[t].out.items = store[stateOp[t].path].data.items
           /\ stateOp[t].out.complete = store[stateOp[t].path].data.complete

\* the store directory exists with settings that can be read and parsed
UsableStore(d, dir) == loadFSStoreSettings(d, dir).err = ""

C28_UnusableIssuerRejected ==
  \A t \in Threads :
    (request[t].handler = "local" /\ request[t].issuerChecked) =>
      /\ (request[t].issuer # <<>> /\ ~request[t].issuerUsable) =>
           ~request[t].live /\ request[t].status = 400
      /\ (request[t].issuer = <<>> /\ request[t].live) => request[t].selfSigned

\* C29: the Secret holds a pad of the length of the plaintext and the XOR of
\* pad and plaintext; every UnwrapBytes returns a buffer holding the
\* plaintext, and it is a new buffer: the buffers returned before are kept
\* as they are, whatever the caller has done to them.
C29_UnwrapReturnsPlaintext ==
  /\ [](wrapper.allocated =>
          /\ DOMAIN wrapper = {"allocated", "key", "wrapped"}
          /\ Len(wrapper.key) = Len(unwrapped)
          /\ Len(wrapper.wrapped) = Len(unwrapped)
          /\ \A i \in 1..Len(unwrapped) : wrapper.wrapped[i] = Xor(unwrapped[i], wrapper.key[i]))
  /\ [](call.fn = "UnwrapBytes" => heap[call.out] = unwrapped)
  /\ [][call'.fn = "UnwrapBytes" =>
          /\ call'.out = Len(heap) + 1
          /\ \A b \in 1..Len(heap) : heap'[b] = heap[b]]_<<call, heap>>

\* a second UnwrapBytes after the first buffer was cleared
C29_Witness ==
  /\ call.fn = "UnwrapBytes"
  /\ call.out = 2
  /\ Len(unwrapped) = MaxSecretLen
  /\ heap[1] = <<0, 0>>
  /\ heap[2] = unwrapped
  /\ wrapper.key = <<255, 1>>

\* the extensions of the files a create of thread t declares
GroupOf(t) == {keyExtension, op[t].ext, attributesExtension}

\* the steps of a create from the call of the provider on
ProviderInvoked == {"factoryNew", "writeKey", "writeArtifact", "writeAttributes", "commit"}

\* C30: when a create calls the provider, or has called it, each of the
\* three target files was absent when the create began and has been created
\* by it; so a create that finds a target file existing never comes to
\* call the provider, and a create holds no key and no artifact before.
C30_ProviderAfterExclusiveCreate ==
  \A t \in Threads :
    /\ op[t].pc \in ProviderInvoked =>
         /\ op[t].files = GroupOf(t)
         /\ \A extension \in GroupOf(t) :
              /\ ~Exists(op[t].disk0, FilePath(op[t].name, extension))
              /\ Exists(disk, FilePath(op[t].name, extension))
    /\ op[t].pc \in {"createKey", "createArtifact", "createAttributes"} =>
         op[t].key = Nil /\ op[t].made = Nil

\* the provider has produced a key and a request for a create whose three
\* files exist
C30_Witness ==
  \E t \in Threads :
    /\ op[t].pc = "writeKey"
    /\ op[t].ext = csrExtension
    /\ op[t].made # Nil
    /\ op[t].files = GroupOf(t)

\* the index of the opened store loses no name
IndexOnlyGrows == [][(opened /\ opened') => Range(entries) \subseteq Range(entries')]_vars

\* the file of extension ext of an entry is one a create in progress has
\* opened itself
Staged(name, ext) ==
  \E t \in Threads : op[t].pc # "idle" /\ op[t].name = name /\ ext \in op[t].files

\* no step changes an existing file of a name in the index, the files a
\* create in progress has opened itself apart
AdmittedFilesKept ==
  [][\A name \in Range(entries), ext \in Extensions :
       (opened /\ Exists(disk, FilePath(name, ext)) /\ ~Staged(name, ext))
         => disk'[FilePath(name, ext)] = disk[FilePath(name, ext)]]_vars

\* a cursor yields every name the index held when entries() returned it
CursorKeepsNames ==
  cursor.live => Range(cursor.origin) \subseteq Range(CursorView(cursor, entries))

\* C31: the index only grows, so every name entries() has returned is
\* returned by every later entries() call, and no step of the store
\* removes or rewrites a file of a name in the index.
C31_IndexOnlyGrows ==
  /\ IndexOnlyGrows
  /\ AdmittedFilesKept
  /\ []CursorKeepsNames

C33_AtMostOneCreateSucceeds ==
  \A t \in Threads :
    /\ (Returning(t) /\ ~op[t].err) =>
         /\ op[t].name \notin Range(op[t].entries0)
         /\ Targets(t) \cap FilesOf(op[t].disk0, op[t].name) = {}
         /\ Cardinality({i \in DOMAIN entries : entries[i] = op[t].name}) = 1
         /\ Targets(t) \subseteq FilesOf(disk, op[t].name)
    /\ (Returning(t) /\ op[t].err) => entries = op[t].entries0
    /\ op[t].pc # "idle" =>
         \A p \in DOMAIN disk : Exists(op[t].disk0, p) => disk[p] = op[t].disk0[p]

\* a request create for "a.d" fails after a certificate create for "a.d" has
\* succeeded, whose handle the caller holds and whose files are there
C33_Witness ==
  \E t \in Threads :
    /\ Returning(t) /\ op[t].err
    /\ op[t].name = NameAD /\ op[t].ext = csrExtension
    /\ handle = NameAD
    /\ NameAD \in Range(entries)
    /\ FilesOf(disk, NameAD) = {keyExtension, crtExtension, attributesExtension}

\* the mutexes goroutine t holds, and the one it is about to take
Held(t) == {m \in MutexNames : mutexes[m].writer = t \/ t \in mutexes[m].readers}

Wanted(t) ==
  IF Statement(t).op \in {"Lock", "RLock"} THEN {Statement(t).mutex} ELSE {}

\* the order of the claim: store lock, registry mutex, state mutex
Rank(m) == CASE m = "store" -> 1 [] m = "registry" -> 2 [] m = "state" -> 3

\* C34: a goroutine takes a mutex only while it holds none of the same or a
\* later rank; a goroutine that has returned holds no mutex and waits for
\* none; and whenever goroutines are running, one of them can take its next
\* step: no state is a deadlock.
C34_NoDeadlock ==
  /\ \A t \in Threads : \A w \in Wanted(t), h \in Held(t) : Rank(h) < Rank(w)
  /\ \A t \in Threads :
       goroutine[t] = <<>> =>
         Held(t) = {} /\ \A m \in MutexNames : t \notin mutexes[m].pending
  /\ \A m \in MutexNames :
       mutexes[m].writer # 0 => mutexes[m].readers = {}
  /\ (\E t \in Threads : goroutine[t] # <<>>) => ENABLED (\E t \in Threads : Running(t))

\* an ACME create holds the store lock and the registry mutex and is inside
\* state.Write, while the other goroutine waits in Lock() of the registry
C34_Witness ==
  \E t, u \in Threads :
    /\ Held(t) = {"store", "registry", "state"}
    /\ mutexes["state"].writer = t
    /\ u \in mutexes["registry"].pending

\* the registrations cannot be loaded: the read fails with an error other
\* than NotFound, or what is read is no JSON document
CannotLoad(data) == data.written /\ (data = Directory \/ ~data.complete)

\* C35: an update that cannot load the registrations ends with an error and
\* has not written, and the persisted state is as before; an update that
\* finds no registrations file goes on with the empty list, so that its
\* write leaves a document holding exactly its record.
C35_UpdateWithoutLoadWritesNothing ==
  /\ [][\A t \in Threads :
          (acme[t].pc = "load" /\ acme'[t] # acme[t]) =>
            IF CannotLoad(state[providerRegistrationsFile])
              THEN /\ acme'[t].pc = "unlock" /\ acme'[t].err /\ ~acme'[t].wrote
                   /\ state' = state
            ELSE IF ~state[providerRegistrationsFile].written
              THEN /\ acme'[t].pc = "write"
                   /\ acme'[t].loaded = <<>>
                   /\ acme'[t].list = <<acme[t].registration>>
            ELSE acme'[t].pc = "write"]_vars
  /\ [][\A t \in Threads :
          (acme[t].pc = "unlock" /\ acme[t].cause = "load" /\ acme' # acme) =>
            /\ state' = state
            /\ acme'[t] # acme[t] => acme'[t].pc = "failed" /\ ~acme'[t].wrote]_vars
  /\ [](\A t \in Threads :
          (acme[t].pc = "unlock" /\ acme[t].persisted /\ ~acme[t].before.written) =>
            \/ state[providerRegistrationsFile] = MarshalIndent(<<acme[t].registration>>)
            \/ state[providerRegistrationsFile] = Directory)

\* an update has failed to load from a directory in the place of the file
C35_Witness ==
  \E t \in Threads :
    /\ acme[t].pc = "unlock"
    /\ acme[t].cause = "load"
    /\ regMutex = t
    /\ state[providerRegistrationsFile] = Directory

\* the order of goroutine t has registered the key of its record with the
\* directory
Registered(t) ==
  /\ acme[t].pc \in {"lock", "load", "write", "unlock", "obtain"}
  /\ ~acme[t].valid
  /\ acme[t].registration.Registration # 0

\* C36: the orders of one (provider, email) register at most one account key
\* with the directory, and a lookup that starts after a key was registered
\* returns a record with that key.
C36_OneAccountKeyRegistered ==
  /\ [](\A t, u \in Threads :
          (/\ Registered(t) /\ Registered(u)
           /\ SameKey(acme[t].registration, acme[u].registration.Provider,
                      acme[u].registration.Email))
            => acme[t].registration.Key = acme[u].registration.Key)
  /\ [][\A t, u \in Threads :
          (/\ acme[t].pc = "idle" /\ acme'[t].pc = "keyType"
           /\ Registered(u)
           /\ SameKey(acme'[t].registration, acme[u].registration.Provider,
                      acme[u].registration.Email))
            => acme'[t].registration.Key = acme[u].registration.Key]_vars

\* C37: a directory that Init creates holds settings that can be read and
\* parsed, and an Init that fails on a missing path leaves the path missing,
\* so that a later Init or Open of the path can succeed.
C37_InitAllOrNothing ==
  /\ [][(storeDir = "absent" /\ storeDir' = "dir") => UsableStore(disk', storeDir')]_vars
  /\ [][(storeDir = "absent" /\ call'.fn = "Init" /\ call'.out # "") =>
          storeDir' = "absent"]_vars

\* C38: in an opened store a lookup returns a handle for exactly the names
\* of the index: Entry(name) answers with the handle iff entries() holds
\* name.
C38_LookupAgreesWithListing ==
  [][\A name \in LookupNames :
       Entry(name) => ((handle' = name) <=> (name \in Range(entries)))]_vars

====
